---- MODULE Spec2Model ----
(***************************************************************************)
(* AndroSH command channel (Core/shizuku.py, class Rish) and the callers   *)
(* that wrap it (Core/HiManagers.py, ADBFileManager._run_command).         *)
(*                                                                         *)
(* Text is modelled as a sequence of one-character strings.  The literal   *)
(* 'RISH_EXIT_CODE:' that frames the exit status is abbreviated to the     *)
(* two characters "R" ":" so that substring search, and look-alikes such   *)
(* as a lone "R" or a lone ":", stay observable.                           *)
(***************************************************************************)
EXTENDS Integers, Sequences, FiniteSets, TLC

\* ------------------------------------------------------------------ bounds
\* longest combined output a modelled command writes
MaxLen == 4

\* ------------------------------------------------------------- text helpers
\* characters Python's str.strip()/str.split() treat as whitespace
Whitespace == {" ", "\n", "\t"}

IsSpace(c) == c \in Whitespace

\* str.rstrip()
RECURSIVE RStrip(_)
RStrip(s) ==
    IF s = <<>> THEN s
    ELSE IF IsSpace(s[Len(s)]) THEN RStrip(SubSeq(s, 1, Len(s) - 1))
    ELSE s

\* str.lstrip()
RECURSIVE LStrip(_)
LStrip(s) ==
    IF s = <<>> THEN s
    ELSE IF IsSpace(s[1]) THEN LStrip(Tail(s))
    ELSE s

\* str.strip()
Strip(s) == LStrip(RStrip(s))

\* index of the first occurrence of tok in s, 0 when there is none
Find(s, tok) ==
    LET hits == {i \in 1..(Len(s) - Len(tok) + 1) :
                    (tok # <<>> => s[i] = tok[1])
                        /\ SubSeq(s, i, i + Len(tok) - 1) = tok}
    IN  IF hits = {} THEN 0
        ELSE CHOOSE i \in hits : \A j \in hits : i <= j

\* tok in s
Contains(s, tok) == Find(s, tok) # 0

\* s.split(tok, 1) for a string known to contain tok
SplitOnce(s, tok) ==
    LET i == Find(s, tok)
    IN  << SubSeq(s, 1, i - 1), SubSeq(s, i + Len(tok), Len(s)) >>

\* s.split()[0] for a stripped, non-empty s: the first whitespace-delimited word
RECURSIVE FirstWord(_)
FirstWord(s) ==
    IF s = <<>> \/ IsSpace(s[1]) THEN <<>>
    ELSE <<s[1]>> \o FirstWord(Tail(s))

DigitChars == <<"0", "1", "2", "3", "4", "5", "6", "7", "8", "9">>

IsDigit(c) == \E d \in 1..10 : DigitChars[d] = c

DigitValue(c) == (CHOOSE d \in 1..10 : DigitChars[d] = c) - 1

\* value of a non-empty run of decimal digits
RECURSIVE DigitsValue(_)
DigitsValue(w) ==
    IF w = <<>> THEN 0
    ELSE 10 * DigitsValue(SubSeq(w, 1, Len(w) - 1)) + DigitValue(w[Len(w)])

AllDigits(w) == w # <<>> /\ \A i \in 1..Len(w) : IsDigit(w[i])

\* int(w) succeeds: an optional sign followed by decimal digits
IsInt(w) ==
    \/ AllDigits(w)
    \/ Len(w) >= 2 /\ w[1] \in {"+", "-"} /\ AllDigits(Tail(w))

\* int(w) for a word int() accepts
StrToInt(w) ==
    IF w[1] = "-" THEN 0 - DigitsValue(Tail(w))
    ELSE IF w[1] = "+" THEN DigitsValue(Tail(w))
    ELSE DigitsValue(w)

\* decimal text of a natural number, as the shell expands $?
RECURSIVE IntToStr(_)
IntToStr(n) ==
    IF n < 10 THEN <<DigitChars[n + 1]>>
    ELSE IntToStr(n \div 10) \o <<DigitChars[(n % 10) + 1]>>

\* all texts over alphabet of length at most n
RECURSIVE TextsUpTo(_, _)
TextsUpTo(alphabet, n) ==
    IF n = 0 THEN {<<>>}
    ELSE LET shorter == TextsUpTo(alphabet, n - 1)
         IN  shorter \cup {t \o <<c>> : t \in {u \in shorter : Len(u) = n - 1},
                                         c \in alphabet}

\* --------------------------------------------------- quoting and the shell
\* str.lower() over the capital letters the modelled texts contain
LowerChar(c) ==
    CASE c = "B" -> "b" [] c = "C" -> "c" [] c = "D" -> "d" [] c = "E" -> "e"
      [] c = "F" -> "f" [] c = "N" -> "n" [] c = "P" -> "p" [] c = "R" -> "r"
      [] OTHER -> c

Lower(s) == [i \in 1..Len(s) |-> LowerChar(s[i])]

\* the texts of a sequence of texts, one after the other
RECURSIVE Concat(_)
Concat(parts) ==
    IF Len(parts) = 0 THEN <<>>
    ELSE IF Len(parts) = 1 THEN parts[1]
    ELSE LET half == Len(parts) \div 2
         IN  Concat(SubSeq(parts, 1, half)) \o Concat(SubSeq(parts, half + 1, Len(parts)))

\* repr() of a str: single quotes unless the text holds a single quote and no
\* double quote; the chosen quote and the backslash are backslash-escaped,
\* line break and tab are written as \n and \t
ReprQuote(s) ==
    IF (\E i \in 1..Len(s) : s[i] = "'") /\ ~(\E i \in 1..Len(s) : s[i] = "\"")
    THEN "\"" ELSE "'"

ReprChar(c, quote) ==
    IF c = quote \/ c = "\\" THEN <<"\\", c>>
    ELSE IF c = "\n" THEN <<"\\", "n">>
    ELSE IF c = "\t" THEN <<"\\", "t">>
    ELSE <<c>>

Repr(s) ==
    <<ReprQuote(s)>>
        \o Concat([i \in 1..Len(s) |-> ReprChar(s[i], ReprQuote(s))])
        \o <<ReprQuote(s)>>

\* the single-quoted shell word for a text: every embedded single quote is
\* closed, written as \' and reopened
ShQuote(s) ==
    <<"'">>
        \o Concat([i \in 1..Len(s) |->
                     IF s[i] = "'" THEN <<"'", "\\", "'", "'">> ELSE <<s[i]>>])
        \o <<"'">>

\* content.replace("'", "'\"'\"'")
EscapeContent(s) ==
    Concat([i \in 1..Len(s) |->
              IF s[i] = "'" THEN <<"'", "\"", "'", "\"", "'">> ELSE <<s[i]>>])

\* characters the shell treats as syntax when they stand unquoted (the
\* backquote behaves as "$" does and is left out)
ShellSyntax == {"$", "*", "?", ";", "&", "|", ">", "<", "(", ")"}

\* characters the shell still expands inside double quotes
ExpandedInDouble == {"$"}

\* characters a backslash escapes inside double quotes
EscapableInDouble == {"$", "\"", "\\"}

\* "$" at j starts an expansion only if a name or a parameter follows
Expands(s, j) == j < Len(s) /\ s[j + 1] \notin Whitespace \cup {"'", "\"", "\\"}

NoLex == [mode |-> "plain", cur |-> <<>>, lit |-> TRUE, open |-> FALSE, words |-> <<>>]

\* characters that end a run of ordinary characters, by quoting mode
LexSpecial(mode) ==
    IF mode = "plain" THEN Whitespace \cup ShellSyntax \cup {"'", "\"", "\\"}
    ELSE IF mode = "single" THEN {"'"}
    ELSE ExpandedInDouble \cup {"\"", "\\"}

\* position of the first character of s at or after i that is in chars, or
\* Len(s) + 1
NextIn(s, i, chars) ==
    LET hits == {j \in i..Len(s) : s[j] \in chars}
    IN  IF hits = {} THEN Len(s) + 1 ELSE CHOOSE j \in hits : \A k \in hits : j <= k

\* the word in progress, finished
LexClose(st) ==
    IF st.open
    THEN [st EXCEPT !.words = Append(st.words, [text |-> st.cur, literal |-> st.lit]),
                    !.cur = <<>>, !.lit = TRUE, !.open = FALSE]
    ELSE st

\* how a POSIX shell splits a command line into words: text of each word
\* after quote removal, and whether all of it was taken literally.  Each step
\* takes the ordinary characters up to the next special one, then that one.
RECURSIVE Lex(_, _, _)
\* the special character at j met with the word in progress in run, or the
\* end of the text
LexStep(s, j, run) ==
    LET c    == s[j]
        more == [run EXCEPT !.cur = Append(run.cur, c), !.open = TRUE]
    IN  IF j > Len(s)
        THEN LexClose([run EXCEPT !.lit = run.lit /\ run.mode = "plain"]).words
        ELSE CASE run.mode = "plain" ->
                    IF IsSpace(c) THEN Lex(s, j + 1, LexClose(run))
                    ELSE IF c = "'"
                    THEN Lex(s, j + 1, [run EXCEPT !.mode = "single", !.open = TRUE])
                    ELSE IF c = "\""
                    THEN Lex(s, j + 1, [run EXCEPT !.mode = "double", !.open = TRUE])
                    ELSE IF c = "\\" /\ j < Len(s)
                    THEN Lex(s, j + 2, [run EXCEPT !.cur = Append(run.cur, s[j + 1]),
                                                   !.open = TRUE])
                    ELSE IF c \in ShellSyntax
                    THEN Lex(s, j + 1, [more EXCEPT !.lit = FALSE])
                    ELSE Lex(s, j + 1, more)
               [] run.mode = "single" ->
                    Lex(s, j + 1, [run EXCEPT !.mode = "plain"])
               [] OTHER ->
                    IF c = "\"" THEN Lex(s, j + 1, [run EXCEPT !.mode = "plain"])
                    ELSE IF c = "\\" /\ j < Len(s) /\ s[j + 1] \in EscapableInDouble
                    THEN Lex(s, j + 2, [run EXCEPT !.cur = Append(run.cur, s[j + 1])])
                    ELSE IF c \in ExpandedInDouble /\ Expands(s, j)
                    THEN Lex(s, j + 1, [more EXCEPT !.lit = FALSE])
                    ELSE Lex(s, j + 1, more)

\* the ordinary characters from i up to j join the word in progress
LexRun(s, i, j, st) ==
    LexStep(s, j, IF j > i
                  THEN [st EXCEPT !.cur = st.cur \o SubSeq(s, i, j - 1), !.open = TRUE]
                  ELSE st)

Lex(s, i, st) == LexRun(s, i, NextIn(s, i, LexSpecial(st.mode)), st)

ShellWords(s) == Lex(s, 1, NoLex)

\* ------------------------------------------------------------ Rish.run text
\* the literal 'RISH_EXIT_CODE:' of the wrapper and of the decoder
Token == <<"R", ":">>

\* the three branches that join the text before the token and the rest
JoinOutput(before, rest) ==
    IF before # <<>> /\ rest # <<>> THEN before \o <<"\n">> \o rest
    ELSE IF before # <<>> THEN before
    ELSE rest

\* decoding once before, after and exit_code_str are known
DecodeStatus(before, after, exit_code_str) ==
    [exit_code |->
         IF after = <<>> THEN 0
         ELSE IF IsInt(exit_code_str) THEN StrToInt(exit_code_str)
         ELSE 1,
     clean_output |->
         JoinOutput(before,
                    IF after # <<>> /\ exit_code_str # <<>>
                    THEN LStrip(SubSeq(after, Len(exit_code_str) + 1, Len(after)))
                    ELSE <<>>)]

\* decoding once the output is split at the token
DecodeParts(before, after) ==
    DecodeStatus(before, after, IF after # <<>> THEN FirstWord(after) ELSE <<>>)

DecodeSplit(parts) == DecodeParts(RStrip(parts[1]), Strip(parts[2]))

\* decoding of the child's captured text: exit code and clean output
RunDecode(output) ==
    IF Contains(output, Token) THEN DecodeSplit(SplitOnce(output, Token))
    ELSE [exit_code |-> 0, clean_output |-> RStrip(output)]

Unrouted(d) ==
    [returncode |-> d.exit_code, stdout |-> d.clean_output,
     stderr |-> d.clean_output]

RunResultUnrouted(output) == Unrouted(RunDecode(output))

\* the closing assignments of Rish.run: the text goes to one field
Routed(d) ==
    [returncode |-> d.exit_code,
     stdout |-> IF d.exit_code = 0 THEN d.clean_output ELSE <<>>,
     stderr |-> IF d.exit_code # 0 THEN d.clean_output ELSE <<>>]

\* the result object handed back by Rish.run
RunResult(output) == Routed(RunDecode(output))

\* ------------------------------------------------------- files and Rish.dex
\* payload contents that can sit in Assets/, in the resources directory or in
\* the temporary directory
Contents == {"dexA", "dexB"}

NoFile == [exists |-> FALSE, content |-> "none", mode |-> {}]

\* owner permission bits of a file at rest: read-write or read-only
RestModes == {{"r", "w"}, {"r"}}

RestFiles == {NoFile} \cup [exists : {TRUE}, content : Contents, mode : RestModes]

\* hashlib digest of a payload
Sha512(content) == IF content = "dexA" THEN "9f2c" ELSE "41be"

\* PyFManager.checksum: the digest, or None when the file cannot be opened
Checksum(f) ==
    IF f.exists /\ "r" \in f.mode THEN Sha512(f.content) ELSE "None"

\* PyFManager.copy of a regular file (shutil.copy2): the destination afterwards
Copy(src, dst) ==
    IF ~src.exists \/ "r" \notin src.mode THEN dst
    ELSE IF dst.exists /\ "w" \notin dst.mode THEN dst
    ELSE [exists |-> TRUE, content |-> src.content, mode |-> src.mode]

\* PyFManager.remove of a regular file or of a missing path
Remove(f) == NoFile

\* the source payload Rish.dex resolves: the resources override, else Assets/
DexAsset(assetsFile, resDir, resFile) ==
    IF resDir /\ resFile.exists THEN resFile ELSE assetsFile

StaleIfAbsentOnly(dex_asset, cached) == ~cached.exists

StaleAlways(dex_asset, cached) == TRUE

\* the re-copy condition of Rish.dex
Stale(dex_asset, cached) ==
    ~cached.exists \/ Checksum(dex_asset) # Checksum(cached)

\* the closing read-only protection of Rish.dex
Lock(cached) ==
    IF "w" \in cached.mode THEN [cached EXCEPT !.mode = {"r"}] ELSE cached

\* Rish.dex: the cached payload afterwards, whether an exception left the
\* method, and the file operations it issued on the cached path
Dex(assetsFile, resDir, resFile, cached) ==
    LET dex_asset == DexAsset(assetsFile, resDir, resFile)
        c1   == IF ~cached.exists THEN Copy(dex_asset, cached) ELSE cached
        ops1 == IF ~cached.exists THEN <<"copy">> ELSE <<>>
        stale == Stale(dex_asset, c1)
    IN  IF stale /\ ~c1.exists
        THEN \* dex_path.chmod on a missing file raises FileNotFoundError
             [cache |-> c1, raised |-> TRUE, ops |-> ops1 \o <<"chmod">>]
        ELSE
          LET c2   == IF stale THEN Copy(dex_asset, Remove([c1 EXCEPT !.mode = {"w"}]))
                      ELSE c1
              ops2 == IF stale THEN ops1 \o <<"chmod", "remove", "copy">> ELSE ops1
          IN  IF ~c2.exists
              THEN \* dex_path.stat on a missing file raises FileNotFoundError
                   [cache |-> c2, raised |-> TRUE, ops |-> ops2]
              ELSE [cache |-> Lock(c2), raised |-> FALSE,
                    ops |-> IF Lock(c2) # c2 THEN ops2 \o <<"chmod">> ELSE ops2]

\* ------------------------------------------------------ commands and child
\* characters a modelled command can write
CmdChars == {"a", "\n", "7", "R", ":"}

\* exit statuses a modelled command can end with
Statuses == {0, 7}

\* a command as the privileged shell sees it: the text it writes (stderr
\* merged by 2>&1), its status, and whether it ends the shell itself (exit,
\* exec) so that nothing after the ';' runs
AllCommands ==
    [out : TextsUpTo(CmdChars, MaxLen), status : Statuses, exits : BOOLEAN]

NoCmd == [out |-> <<>>, status |-> 0, exits |-> FALSE]

\* 'id', 'echo hi', 'false', 'exit 7', 'echo RISH_EXIT_CODE:7'
SampleCommands ==
    { [out |-> <<"a">>, status |-> 0, exits |-> FALSE],
      [out |-> <<"a", "\n">>, status |-> 0, exits |-> FALSE],
      [out |-> <<>>, status |-> 7, exits |-> FALSE],
      [out |-> <<>>, status |-> 7, exits |-> TRUE],
      [out |-> <<"R", ":", "7", "\n">>, status |-> 0, exits |-> FALSE] }

\* the command check_rish sends: 'id'
IdCommand == [out |-> <<"a", "\n">>, status |-> 0, exits |-> FALSE]

\* what the loader itself can write on its own stderr
LoaderStderr == {<<>>, <<"e">>}

\* stdout of '<command> 2>&1; echo RISH_EXIT_CODE:$?' run to its end
ShellOutput(cmd) ==
    IF cmd.exits THEN cmd.out
    ELSE cmd.out \o Token \o IntToStr(cmd.status) \o <<"\n">>

\* proper prefixes of a text: what a child stopped early has written
ProperPrefixes(s) == {SubSeq(s, 1, n) : n \in 0..(Len(s) - 1)}

\* ------------------------------------------------------------------ state
VARIABLES
    assets,         \* Assets/rish_shizuku.dex, the bundled payload
    resourcesDir,   \* whether a resources directory is configured (self.resources)
    resourcesFile,  \* <resources>/rish_shizuku.dex
    cache,          \* <tempdir>/rish_shizuku.dex, the staged payload
    pc,             \* position of the process: start, idle, spawn, waiting, done, exited
    call,           \* the Rish.run / Rish.drun call in flight
    captured,       \* result.stdout + result.stderr of the finished child
    outcome,        \* how Rish.run / Rish.drun ended
    child,          \* the loader child: none, running, completed, died, killed
    childReturn,    \* what Popen.wait() gave Rish.drun for the child
    dexOps,         \* file operations the last Rish.dex call issued on the cache
    cacheBefore,    \* the cached payload as the last Rish.dex call found it
    procStatus      \* exit status of the enclosing process once it has exited

\* the file backends of HiManagers.py and the file system they work on
VARIABLES
    fs,             \* the device's file system: path text -> node
    fsBefore,       \* the file system as the last file operation found it
    fcall,          \* the last file operation: backend, method, arguments
    fret,           \* what it returned or raised
    sent,           \* the commands it handed to ADBFileManager._run_command
    chan,           \* how the channel treated them: ok, timeout, oserror
    flog,           \* what it logged
    bb,             \* BusyBoxManager._available and ._applets
    env             \* utilities installed on the device

channelVars == << assets, resourcesDir, resourcesFile, cache, pc, call, captured,
                  outcome, child, childReturn, dexOps, cacheBefore, procStatus >>

fileVars == << fs, fsBefore, fcall, fret, sent, chan, flog, bb, env >>

vars == << channelVars, fileVars >>

files == << assets, resourcesDir, resourcesFile >>

NoCall == [op |-> "none", cmd |-> NoCmd, timeout |-> "None", caller |-> "none"]

NoResult == [returncode |-> 0, stdout |-> <<>>, stderr |-> <<>>]

NoOutcome == [kind |-> "none", result |-> NoResult, exc |-> "none", status |-> 0]

Returned(result) ==
    [kind |-> "returned", result |-> result, exc |-> "none", status |-> 0]

Raised(exc) ==
    [kind |-> "raised", result |-> NoResult, exc |-> exc, status |-> 0]

\* exit(status): SystemExit leaves the method and ends the process
Exited(status) ==
    [kind |-> "exit", result |-> NoResult, exc |-> "SystemExit", status |-> status]

\* exit status the operating system records for exit(n)
ExitStatus(n) == n % 256

\* str(e) of the exception classes the channel can meet
ExcMessage(exc) == <<exc>>

RunCommandUncaught(o) == o.result

\* ADBFileManager._run_command: what the file backends get for a Rish.run call
RunCommandResult(o) ==
    IF o.kind = "raised"
    THEN [returncode |-> 1, stdout |-> <<>>, stderr |-> ExcMessage(o.exc)]
    ELSE o.result

\* return codes Popen.wait() can give for the interactive child: a normal
\* exit with 0 or 7, or death by signal 9
DrunReturnCodes == {0, 7, -9}

DrunAlwaysExits(returncode) == Exited(ExitStatus(returncode))

\* Rish.drun once the child has ended with returncode
DrunOutcome(returncode) ==
    IF returncode # 0 THEN Exited(ExitStatus(returncode))
    ELSE Returned(NoResult)

\* ----------------------------------------------------------------- actions
\* Rish.run up to the loader spawn: records the timeout, wraps the command and,
\* inside Rish.rish, stages the payload with Rish.dex
BeginRun(caller, cmd, timeout) ==
    LET d == Dex(assets, resourcesDir, resourcesFile, cache)
    IN  /\ call' = [op |-> "run", cmd |-> cmd, timeout |-> timeout, caller |-> caller]
        /\ cache' = d.cache
        /\ dexOps' = d.ops
        /\ cacheBefore' = cache
        /\ captured' = <<>>
        /\ child' = "none"
        /\ childReturn' = 0
        /\ pc' = IF d.raised THEN "done" ELSE "spawn"
        /\ outcome' = IF d.raised THEN Raised("FileNotFoundError") ELSE NoOutcome
        /\ UNCHANGED << fileVars, files, procStatus >>

\* Rish.__init__: check_rish sends 'id' through Rish.run without a timeout
Construct ==
    /\ pc = "start"
    /\ BeginRun("check_rish", IdCommand, "None")

\* ADBFileManager._run_command: Rish.run with the default 30 s timeout
AdbRunCommand(cmds) ==
    /\ pc = "idle"
    /\ \E cmd \in cmds : BeginRun("adb", cmd, "30s")

\* Rish.drun up to the loader spawn; a Rish.dex failure ends the process
DrunCall ==
    /\ pc = "idle"
    /\ \E cmd \in SampleCommands :
         LET d == Dex(assets, resourcesDir, resourcesFile, cache)
         IN  /\ call' = [op |-> "drun", cmd |-> cmd, timeout |-> "None", caller |-> "main"]
             /\ cache' = d.cache
             /\ dexOps' = d.ops
             /\ cacheBefore' = cache
             /\ captured' = <<>>
             /\ child' = "none"
             /\ childReturn' = 0
             /\ pc' = IF d.raised THEN "exited" ELSE "spawn"
             /\ outcome' = IF d.raised THEN Exited(1) ELSE NoOutcome
             /\ procStatus' = IF d.raised THEN 1 ELSE procStatus
             /\ UNCHANGED << fileVars, files >>

\* the loader cannot be started: subprocess.run / Popen raises OSError
SpawnFails ==
    /\ pc = "spawn"
    /\ pc' = IF call.op = "run" THEN "done" ELSE "exited"
    /\ outcome' = IF call.op = "run" THEN Raised("OSError") ELSE Exited(1)
    /\ procStatus' = IF call.op = "run" THEN procStatus ELSE 1
    /\ UNCHANGED << fileVars, files, cache, call, captured, child, childReturn, dexOps,
                    cacheBefore >>

\* the loader starts and the call blocks on it
SpawnChild ==
    /\ pc = "spawn"
    /\ pc' = "waiting"
    /\ child' = "running"
    /\ UNCHANGED << fileVars, files, cache, call, captured, outcome, childReturn, dexOps,
                    cacheBefore, procStatus >>

\* the rest of Rish.run once the child has ended and written text
Finish(ended, text) ==
    /\ child' = ended
    /\ captured' = text
    /\ outcome' = Returned(RunResult(text))
    /\ pc' = "done"
    /\ UNCHANGED << fileVars, files, cache, call, childReturn, dexOps, cacheBefore,
                    procStatus >>

\* the wrapped command runs to its end
ChildCompletes ==
    /\ pc = "waiting"
    /\ call.op = "run"
    /\ \E err \in LoaderStderr : Finish("completed", ShellOutput(call.cmd) \o err)

\* the child is killed or crashes before the wrapped command has ended
ChildDies ==
    /\ pc = "waiting"
    /\ call.op = "run"
    /\ \E out \in ProperPrefixes(ShellOutput(call.cmd)), err \in LoaderStderr :
         Finish("died", out \o err)

\* the timeout of subprocess.run expires: the child is killed and
\* TimeoutExpired leaves Rish.rish and Rish.run
TimeoutExpires ==
    /\ pc = "waiting"
    /\ call.op = "run"
    /\ call.timeout # "None"
    /\ child' = "killed"
    /\ outcome' = Raised("TimeoutExpired")
    /\ pc' = "done"
    /\ UNCHANGED << fileVars, files, cache, call, captured, childReturn, dexOps, cacheBefore,
                    procStatus >>

\* the interactive child of Rish.drun ends
DrunChildExits ==
    /\ pc = "waiting"
    /\ call.op = "drun"
    /\ \E returncode \in DrunReturnCodes :
         /\ childReturn' = returncode
         /\ outcome' = DrunOutcome(returncode)
         /\ pc' = IF DrunOutcome(returncode).kind = "exit" THEN "exited" ELSE "done"
         /\ procStatus' = IF DrunOutcome(returncode).kind = "exit"
                          THEN DrunOutcome(returncode).status ELSE procStatus
    /\ child' = "completed"
    /\ UNCHANGED << fileVars, files, cache, call, captured, dexOps, cacheBefore >>

\* the caller takes over: a file backend goes on with the result of
\* _run_command; check_rish ends the process unless the result is a success;
\* main.py has nothing left to do after a Rish.drun that returned
CallerContinues ==
    /\ pc = "done"
    /\ pc' = IF call.caller = "adb" THEN "idle"
             ELSE IF call.caller = "check_rish" /\ outcome.kind = "returned"
                     /\ outcome.result.returncode = 0 THEN "idle"
             ELSE "exited"
    /\ procStatus' = 0
    /\ call' = NoCall
    /\ captured' = <<>>
    /\ outcome' = NoOutcome
    /\ child' = "none"
    /\ childReturn' = 0
    /\ dexOps' = <<>>
    /\ cacheBefore' = NoFile
    /\ UNCHANGED << fileVars, files, cache >>

\* the tool is started again
NewProcess ==
    /\ pc = "exited"
    /\ pc' = "start"
    /\ call' = NoCall
    /\ captured' = <<>>
    /\ outcome' = NoOutcome
    /\ child' = "none"
    /\ childReturn' = 0
    /\ dexOps' = <<>>
    /\ cacheBefore' = NoFile
    /\ procStatus' = 0
    /\ UNCHANGED << fileVars, files, cache >>

\* between two launches the bundled payload is replaced, or a payload is
\* exported to / removed from the resources directory
AssetsReplaced ==
    /\ pc \in {"start", "idle"}
    /\ \E f \in RestFiles : assets' = f /\ f # assets
    /\ UNCHANGED << fileVars, resourcesDir, resourcesFile, cache, pc, call, captured, outcome,
                    child, childReturn, dexOps, cacheBefore, procStatus >>

ResourcesReplaced ==
    /\ pc \in {"start", "idle"}
    /\ resourcesDir
    /\ \E f \in RestFiles : resourcesFile' = f /\ f # resourcesFile
    /\ UNCHANGED << fileVars, assets, resourcesDir, cache, pc, call, captured, outcome,
                    child, childReturn, dexOps, cacheBefore, procStatus >>

\* --------------------------------------------------- texts of the backends
\* the pieces HiManagers.py and shizuku.py build command lines from
Cmd ==
    [ cp |->   \* "cp "
          <<"c", "p", " ">>,
      chmod |->   \* "chmod "
          <<"c", "h", "m", "o", "d", " ">>,
      busybox |->   \* "/data/local/tmp/busybox/busybox"
          <<"/", "d", "a", "t", "a", "/", "l", "o", "c", "a", "l", "/", "t",
          "m", "p", "/", "b", "u", "s", "y", "b", "o", "x", "/", "b", "u",
          "s", "y", "b", "o", "x">>,
      testE |->   \* "test -e "
          <<"t", "e", "s", "t", " ", "-", "e", " ">>,
      testF |->   \* "test -f "
          <<"t", "e", "s", "t", " ", "-", "f", " ">>,
      testD |->   \* "test -d "
          <<"t", "e", "s", "t", " ", "-", "d", " ">>,
      echoExists |->   \* " && echo exists || echo missing"
          <<" ", "&", "&", " ", "e", "c", "h", "o", " ", "e", "x", "i", "s",
          "t", "s", " ", "|", "|", " ", "e", "c", "h", "o", " ", "m", "i",
          "s", "s", "i", "n", "g">>,
      echoFile |->   \* " && echo file || echo not_file"
          <<" ", "&", "&", " ", "e", "c", "h", "o", " ", "f", "i", "l", "e",
          " ", "|", "|", " ", "e", "c", "h", "o", " ", "n", "o", "t", "_",
          "f", "i", "l", "e">>,
      echoDir |->   \* " && echo dir || echo not_dir"
          <<" ", "&", "&", " ", "e", "c", "h", "o", " ", "d", "i", "r", " ",
          "|", "|", " ", "e", "c", "h", "o", " ", "n", "o", "t", "_", "d",
          "i", "r">>,
      mkdir |->   \* "mkdir "
          <<"m", "k", "d", "i", "r", " ">>,
      p |->   \* "-p "
          <<"-", "p", " ">>,
      rm |->   \* "rm "
          <<"r", "m", " ">>,
      rf |->   \* "-rf "
          <<"-", "r", "f", " ">>,
      r |->   \* "-r "
          <<"-", "r", " ">>,
      f |->   \* "-f "
          <<"-", "f", " ">>,
      cat |->   \* "cat "
          <<"c", "a", "t", " ">>,
      echo |->   \* "echo '"
          <<"e", "c", "h", "o", " ", "'">>,
      to |->   \* "' > "
          <<"'", " ", ">", " ">>,
      sum |->   \* "sum "
          <<"s", "u", "m", " ">>,
      orEcho |->   \* " 2>/dev/null || echo"
          <<" ", "2", ">", "/", "d", "e", "v", "/", "n", "u", "l", "l", " ",
          "|", "|", " ", "e", "c", "h", "o">>,
      list |->   \* " --list"
          <<" ", "-", "-", "l", "i", "s", "t">>,
      statAll |->   \* "stat -c '%n|%s|%F|%U|%G|%a|%Y|%X|%Z' "
          <<"s", "t", "a", "t", " ", "-", "c", " ", "'", "%", "n", "|", "%",
          "s", "|", "%", "F", "|", "%", "U", "|", "%", "G", "|", "%", "a",
          "|", "%", "Y", "|", "%", "X", "|", "%", "Z", "'", " ">>,
      statSize |->   \* "stat -c %s "
          <<"s", "t", "a", "t", " ", "-", "c", " ", "%", "s", " ">>,
      statMtime |->   \* "stat -c %Y "
          <<"s", "t", "a", "t", " ", "-", "c", " ", "%", "Y", " ">>,
      mv |->   \* "mv "
          <<"m", "v", " ">>,
      shMv |->   \* "sh -c 'mv "
          <<"s", "h", " ", "-", "c", " ", "'", "m", "v", " ">>,
      c |->   \* "-c "
          <<"-", "c", " ">>,
      wrapTail |->   \* " 2>&1; echo "
          <<" ", "2", ">", "&", "1", ";", " ", "e", "c", "h", "o", " ">>,
      help |->   \* " --help"
          <<" ", "-", "-", "h", "e", "l", "p">>,
      chown |->   \* "chown "
          <<"c", "h", "o", "w", "n", " ">>,
      ln |->   \* "ln -sf "
          <<"l", "n", " ", "-", "s", "f", " ">>,
      readlink |->   \* "readlink "
          <<"r", "e", "a", "d", "l", "i", "n", "k", " ">>,
      base64 |->   \* "base64 "
          <<"b", "a", "s", "e", "6", "4", " ">>,
      status |->   \* "$?"
          <<"$", "?">> ]

\* the substrings HiManagers.py searches results for
Ind ==
    [ exists |->   \* "exists"
          <<"e", "x", "i", "s", "t", "s">>,
      file |->   \* "file"
          <<"f", "i", "l", "e">>,
      dir |->   \* "dir"
          <<"d", "i", "r">>,
      error |->   \* "error"
          <<"e", "r", "r", "o", "r">>,
      failed |->   \* "failed"
          <<"f", "a", "i", "l", "e", "d">>,
      permissionDenied |->   \* "permission denied"
          <<"p", "e", "r", "m", "i", "s", "s", "i", "o", "n", " ", "d", "e",
          "n", "i", "e", "d">>,
      noSuchFile |->   \* "no such file"
          <<"n", "o", " ", "s", "u", "c", "h", " ", "f", "i", "l", "e">>,
      cannot |->   \* "cannot"
          <<"c", "a", "n", "n", "o", "t">>,
      noSuch |->   \* "no such"
          <<"n", "o", " ", "s", "u", "c", "h">>,
      notFound |->   \* "not found"
          <<"n", "o", "t", " ", "f", "o", "u", "n", "d">>,
      FileExists |->   \* "File exists"
          <<"F", "i", "l", "e", " ", "e", "x", "i", "s", "t", "s">>,
      NoSuchFile |->   \* "No such file"
          <<"N", "o", " ", "s", "u", "c", "h", " ", "f", "i", "l", "e">>,
      BusyBox |->   \* "BusyBox"
          <<"B", "u", "s", "y", "B", "o", "x">>,
      bar |->   \* "|"
          <<"|">> ]

\* what the device's utilities and the Python runtime write on failure
Msg ==
    [ fileExists |->   \* "File exists"
          <<"F", "i", "l", "e", " ", "e", "x", "i", "s", "t", "s">>,
      noSuchFile |->   \* "No such file or directory"
          <<"N", "o", " ", "s", "u", "c", "h", " ", "f", "i", "l", "e", " ",
          "o", "r", " ", "d", "i", "r", "e", "c", "t", "o", "r", "y">>,
      permissionDenied |->   \* "Permission denied"
          <<"P", "e", "r", "m", "i", "s", "s", "i", "o", "n", " ", "d", "e",
          "n", "i", "e", "d">>,
      isADirectory |->   \* "Is a directory"
          <<"I", "s", " ", "a", " ", "d", "i", "r", "e", "c", "t", "o", "r",
          "y">>,
      syntaxError |->   \* "sh: syntax error"
          <<"s", "h", ":", " ", "s", "y", "n", "t", "a", "x", " ", "e", "r",
          "r", "o", "r">>,
      appletNotFound |->   \* "applet not found"
          <<"a", "p", "p", "l", "e", "t", " ", "n", "o", "t", " ", "f", "o",
          "u", "n", "d">>,
      command |->   \* "Command "
          <<"C", "o", "m", "m", "a", "n", "d", " ">>,
      timedOut |->   \* " timed out after 30 seconds"
          <<" ", "t", "i", "m", "e", "d", " ", "o", "u", "t", " ", "a", "f",
          "t", "e", "r", " ", "3", "0", " ", "s", "e", "c", "o", "n", "d", "s">>,
      errno2 |->   \* "[Errno 2] No such file or directory: '/system/bin/app_process'"
          <<"[", "E", "r", "r", "n", "o", " ", "2", "]", " ", "N", "o", " ",
          "s", "u", "c", "h", " ", "f", "i", "l", "e", " ", "o", "r", " ",
          "d", "i", "r", "e", "c", "t", "o", "r", "y", ":", " ", "'", "/",
          "s", "y", "s", "t", "e", "m", "/", "b", "i", "n", "/", "a", "p",
          "p", "_", "p", "r", "o", "c", "e", "s", "s", "'">>,
      banner |->   \* "BusyBox v1.36.1 multi-call binary."
          <<"B", "u", "s", "y", "B", "o", "x", " ", "v", "1", ".", "3", "6",
          ".", "1", " ", "m", "u", "l", "t", "i", "-", "c", "a", "l", "l",
          " ", "b", "i", "n", "a", "r", "y", ".">>,
      notFound |->   \* "inaccessible or not found"
          <<"i", "n", "a", "c", "c", "e", "s", "s", "i", "b", "l", "e", " ",
          "o", "r", " ", "n", "o", "t", " ", "f", "o", "u", "n", "d">>,
      sep |->   \* ": "
          <<":", " ">> ]

\* words of a command line as the device's shell sees them, and the
\* hash_type values of checksum
Word ==
    [ cp |->   \* "cp"
          <<"c", "p">>,
      chmod |->   \* "chmod"
          <<"c", "h", "m", "o", "d">>,
      test |->   \* "test"
          <<"t", "e", "s", "t">>,
      mkdir |->   \* "mkdir"
          <<"m", "k", "d", "i", "r">>,
      rm |->   \* "rm"
          <<"r", "m">>,
      cat |->   \* "cat"
          <<"c", "a", "t">>,
      echo |->   \* "echo"
          <<"e", "c", "h", "o">>,
      stat |->   \* "stat"
          <<"s", "t", "a", "t">>,
      mv |->   \* "mv"
          <<"m", "v">>,
      sh |->   \* "sh"
          <<"s", "h">>,
      list |->   \* "--list"
          <<"-", "-", "l", "i", "s", "t">>,
      redirect |->   \* ">"
          <<">">>,
      e |->   \* "-e"
          <<"-", "e">>,
      f |->   \* "-f"
          <<"-", "f">>,
      d |->   \* "-d"
          <<"-", "d">>,
      p |->   \* "-p"
          <<"-", "p">>,
      md5 |->   \* "md5"
          <<"m", "d", "5">>,
      sha1 |->   \* "sha1"
          <<"s", "h", "a", "1">>,
      sha256 |->   \* "sha256"
          <<"s", "h", "a", "2", "5", "6">>,
      sha512 |->   \* "sha512"
          <<"s", "h", "a", "5", "1", "2">>,
      md5sum |->   \* "md5sum"
          <<"m", "d", "5", "s", "u", "m">>,
      sha256sum |->   \* "sha256sum"
          <<"s", "h", "a", "2", "5", "6", "s", "u", "m">>,
      sha512sum |->   \* "sha512sum"
          <<"s", "h", "a", "5", "1", "2", "s", "u", "m">>,
      help |->   \* "--help"
          <<"-", "-", "h", "e", "l", "p">>,
      chown |->   \* "chown"
          <<"c", "h", "o", "w", "n">>,
      ln |->   \* "ln"
          <<"l", "n">>,
      sf |->   \* "-sf"
          <<"-", "s", "f">>,
      readlink |->   \* "readlink"
          <<"r", "e", "a", "d", "l", "i", "n", "k">>,
      base64 |->   \* "base64"
          <<"b", "a", "s", "e", "6", "4">>,
      shell |->   \* "/system/bin/sh"
          <<"/", "s", "y", "s", "t", "e", "m", "/", "b", "i", "n", "/", "s",
          "h">> ]


\* ------------------------------------------------- the device's file system
\* a file system maps the paths that exist to nodes; no node, no path
FileNode(content) == [kind |-> "file", content |-> content]

DirNode == [kind |-> "dir", content |-> <<>>]

\* a symbolic link holds the path it points to
LinkNode(target) == [kind |-> "link", content |-> target]

Kind(f, p) == IF p \in DOMAIN f THEN f[p].kind ELSE "absent"

Put(f, p, node) == [q \in (DOMAIN f) \cup {p} |-> IF q = p THEN node ELSE f[q]]

Del(f, p) == [q \in (DOMAIN f) \ {p} |-> f[q]]

\* the working directory, which pathlib's Path("") names
Cwd == <<".">>

\* a path inside a directory the caller may not write to
SysPath == <<"/", "s">>

\* why nothing can be created at p, or "none"
CreateError(p) ==
    IF p = <<>> THEN Msg.noSuchFile
    ELSE IF p = SysPath THEN Msg.permissionDenied
    ELSE <<>>

\* hexadecimal digits of a character
HexChar(c) ==
    CASE c = "a" -> <<"6", "1">> [] c = " " -> <<"2", "0">>
      [] c = "\n" -> <<"0", "a">> [] c = "R" -> <<"5", "2">>
      [] c = ":" -> <<"3", "a">> [] c = "7" -> <<"3", "7">>
      [] OTHER -> <<"3", "f">>

\* the digest a hash utility prints: one leading digit per algorithm, then a
\* value that differs for different contents
Digest(util, content) ==
    (CASE util = Word.md5sum -> <<"5">> [] util = Word.sha256sum -> <<"2">>
       [] OTHER -> <<"1">>)
        \o Concat([i \in 1..Len(content) |-> HexChar(content[i])])

\* ------------------------------------------------------------ the device
\* '<utility>: <path>: <message>' and a non-zero status
UtilFails(util, p, msg, status, f) ==
    [out |-> util \o Msg.sep \o p \o Msg.sep \o msg \o <<"\n">>,
     status |-> status, fs |-> f]

UtilDone(out, f) == [out |-> out, status |-> 0, fs |-> f]

\* test -e|-f|-d P && echo X || echo Y
DevTest(a, f) ==
    LET k == Kind(f, a[3])
        holds == IF a[2] = Word.e THEN k # "absent"
                 ELSE IF a[2] = Word.f THEN k = "file"
                 ELSE k = "dir"
    IN  UtilDone((IF holds THEN a[6] ELSE a[9]) \o <<"\n">>, f)

\* mkdir [-p] P
DevMkdir(a, f) ==
    LET p == a[Len(a)]
        k == Kind(f, p)
    IN  IF k = "dir" /\ a[2] = Word.p THEN UtilDone(<<>>, f)
        ELSE IF k # "absent" THEN UtilFails(a[1], p, Msg.fileExists, 1, f)
        ELSE IF CreateError(p) # <<>> THEN UtilFails(a[1], p, CreateError(p), 1, f)
        ELSE UtilDone(<<>>, Put(f, p, DirNode))

\* rm [-r] -f P, rm -rf P
DevRm(a, f) ==
    LET p == a[Len(a)]
        k == Kind(f, p)
        recursive == \E i \in 2..(Len(a) - 1) : Contains(a[i], <<"r">>)
    IN  IF k = "absent" THEN UtilDone(<<>>, f)
        ELSE IF k = "dir" /\ ~recursive THEN UtilFails(a[1], p, Msg.isADirectory, 1, f)
        ELSE UtilDone(<<>>, Del(f, p))

\* cat P
DevCat(a, f) ==
    LET p == a[2]
        k == Kind(f, p)
    IN  IF k = "file" THEN UtilDone(f[p].content, f)
        ELSE IF k = "dir" THEN UtilFails(a[1], p, Msg.isADirectory, 1, f)
        ELSE UtilFails(a[1], p, Msg.noSuchFile, 1, f)

\* echo C > P: the shell opens P, echo writes C and a line break
DevEcho(a, f) ==
    LET p == a[4]
        k == Kind(f, p)
    IN  IF k = "dir" THEN UtilFails(Word.sh, p, Msg.isADirectory, 1, f)
        ELSE IF k = "absent" /\ CreateError(p) # <<>>
        THEN UtilFails(Word.sh, p, CreateError(p), 1, f)
        ELSE UtilDone(<<>>, Put(f, p, FileNode(a[2] \o <<"\n">>)))

\* <hash>sum P, with or without '2>/dev/null || echo' behind it
DevSum(a, f, e) ==
    LET p == a[2]
        quiet == Len(a) > 2
    IN  IF a[1] \in e /\ Kind(f, p) = "file"
        THEN UtilDone(Digest(a[1], f[p].content) \o <<" ", " ">> \o p \o <<"\n">>, f)
        ELSE IF quiet THEN UtilDone(<<"\n">>, f)
        ELSE IF a[1] \notin e THEN UtilFails(a[1], p, Msg.appletNotFound, 127, f)
        ELSE IF Kind(f, p) = "dir" THEN UtilFails(a[1], p, Msg.isADirectory, 1, f)
        ELSE UtilFails(a[1], p, Msg.noSuchFile, 1, f)

\* the line stat prints for the format it is given
StatLine(format, p, node) ==
    LET size == IntToStr(Len(node.content))
        type == IF node.kind = "dir" THEN <<"d">> ELSE <<"f">>
    IN  IF format = <<"%", "s">> THEN size
        ELSE IF format = <<"%", "Y">> THEN <<"1">>
        ELSE p \o Ind.bar \o size \o Ind.bar \o type \o Ind.bar \o <<"u">> \o Ind.bar
               \o <<"g">> \o Ind.bar \o <<"6", "4", "4">> \o Ind.bar \o <<"1">>
               \o Ind.bar \o <<"1">> \o Ind.bar \o <<"1">>

\* stat -c FORMAT P, with or without '2>/dev/null || echo' behind it
DevStat(a, f, e) ==
    LET p == a[4]
        quiet == Len(a) > 4
    IN  IF a[1] \in e /\ Kind(f, p) # "absent"
        THEN UtilDone(StatLine(a[3], p, f[p]) \o <<"\n">>, f)
        ELSE IF quiet THEN UtilDone(<<"\n">>, f)
        ELSE IF a[1] \notin e THEN UtilFails(a[1], p, Msg.appletNotFound, 127, f)
        ELSE UtilFails(a[1], p, Msg.noSuchFile, 1, f)

\* the lines of 'busybox --list', in some order
RECURSIVE Lines(_)
Lines(texts) ==
    IF texts = {} THEN <<>>
    ELSE LET t == CHOOSE x \in texts : TRUE
         IN  t \o <<"\n">> \o Lines(texts \ {t})

\* last component of a path
Base(p) ==
    LET slashes == {i \in 1..Len(p) : p[i] = "/"}
    IN  IF slashes = {} THEN p
        ELSE SubSeq(p, (CHOOSE i \in slashes : \A k \in slashes : k <= i) + 1, Len(p))

\* a utility that is not among the applets of the binary
NoApplet(a, f) == UtilFails(a[1], a[Len(a)], Msg.appletNotFound, 127, f)

\* chown OWNER P; the file system keeps no owners, so nothing changes
DevChown(a, f, e) ==
    IF a[1] \notin e THEN NoApplet(a, f)
    ELSE IF Kind(f, a[3]) = "absent" THEN UtilFails(a[1], a[3], Msg.noSuchFile, 1, f)
    ELSE UtilDone(<<>>, f)

\* cp SRC DST; a DST that is a directory takes the copy inside it
DevCp(a, f) ==
    LET at == IF Kind(f, a[3]) = "dir" THEN a[3] \o <<"/">> \o Base(a[2]) ELSE a[3]
    IN  IF Kind(f, a[2]) = "absent" THEN UtilFails(a[1], a[2], Msg.noSuchFile, 1, f)
        ELSE IF Kind(f, a[2]) = "dir" THEN UtilFails(a[1], a[2], Msg.isADirectory, 1, f)
        ELSE IF CreateError(at) # <<>> THEN UtilFails(a[1], at, CreateError(at), 1, f)
        ELSE UtilDone(<<>>, Put(f, at, f[a[2]]))

\* chmod MODE P; the file system keeps no modes, so nothing changes
DevChmod(a, f) ==
    IF Kind(f, a[3]) = "absent" THEN UtilFails(a[1], a[3], Msg.noSuchFile, 1, f)
    ELSE UtilDone(<<>>, f)

\* where ln puts the link: inside LINK if that is a directory
LinkAt(target, link, f) ==
    IF Kind(f, link) = "dir" THEN link \o <<"/">> \o Base(target) ELSE link

\* the link is made at path at, replacing what was there
Linked(a, target, at, f) ==
    IF CreateError(at) # <<>> THEN UtilFails(a[1], at, CreateError(at), 1, f)
    ELSE UtilDone(<<>>, Put(f, at, LinkNode(target)))

\* ln -sf TARGET LINK
DevLn(a, f, e) ==
    IF a[1] \notin e THEN NoApplet(a, f)
    ELSE Linked(a, a[3], LinkAt(a[3], a[4], f), f)

\* readlink P: the target of a link, nothing and status 1 for anything else
DevReadlink(a, f, e) ==
    IF a[1] \notin e THEN NoApplet(a, f)
    ELSE IF Kind(f, a[2]) = "link" THEN UtilDone(f[a[2]].content \o <<"\n">>, f)
    ELSE [out |-> <<>>, status |-> 1, fs |-> f]

\* the text-safe encoding of a content: two characters for each one
Encoded(content) == Concat([i \in 1..Len(content) |-> HexChar(content[i])])

\* base64 P
DevBase64(a, f, e) ==
    IF a[1] \notin e THEN NoApplet(a, f)
    ELSE IF Kind(f, a[2]) = "file" THEN UtilDone(Encoded(f[a[2]].content) \o <<"\n">>, f)
    ELSE IF Kind(f, a[2]) = "dir" THEN UtilFails(a[1], a[2], Msg.isADirectory, 1, f)
    ELSE UtilFails(a[1], a[2], Msg.noSuchFile, 1, f)

NotADirectory == <<"N", "o", "t", " ", "a", " ", "d", "i", "r", "e", "c", "t", "o", "r", "y">>

\* the node at src becomes the node at target
Renamed(a, f, src, target) ==
    IF CreateError(target) # <<>> THEN UtilFails(a[1], target, CreateError(target), 1, f)
    ELSE IF Kind(f, src) = "dir" /\ Kind(f, target) = "file"
    THEN UtilFails(a[1], target, NotADirectory, 1, f)
    ELSE IF src = target THEN UtilDone(<<>>, f)
    ELSE UtilDone(<<>>, Put(Del(f, src), target, f[src]))

\* mv [-f] SRC DST; a DST that is a directory takes SRC inside it
DevMv(a, f) ==
    IF Kind(f, a[Len(a) - 1]) = "absent"
    THEN UtilFails(a[1], a[Len(a) - 1], Msg.noSuchFile, 1, f)
    ELSE Renamed(a, f, a[Len(a) - 1],
                 IF Kind(f, a[Len(a)]) = "dir"
                 THEN a[Len(a)] \o <<"/">> \o Base(a[Len(a) - 1])
                 ELSE a[Len(a)])

\* the words the one outer word of '-c <repr(command)>' holds
InnerWords(outer) ==
    IF Len(outer) = 1 /\ outer[1].literal THEN ShellWords(outer[1].text) ELSE <<>>

DashC == <<"-", "c">>

WordTexts(words) == [i \in 1..Len(words) |-> words[i].text]

\* the multi-call binary takes the utility from its first argument
DropBusybox(words) ==
    IF words # <<>> /\ words[1] = Cmd.busybox THEN Tail(words) ELSE words

\* the command line as the device's shell gets it from
\* '-c <repr(command)>': the words it splits into, or none if the quoting of
\* the command did not survive
Argv(command) == WordTexts(InnerWords(ShellWords(Repr(command))))

\* the device carries out the words of a command line on file system f with
\* utilities e: what it writes (stderr merged), its status, and the file
\* system afterwards
RECURSIVE Execute(_, _, _)
Execute(a, f, e) ==
    IF a = <<>> THEN [out |-> Msg.syntaxError \o <<"\n">>, status |-> 2, fs |-> f]
    ELSE IF a[1] = Word.test /\ Len(a) = 9 THEN DevTest(a, f)
    ELSE IF a[1] = Word.mkdir /\ Len(a) >= 2 THEN DevMkdir(a, f)
    ELSE IF a[1] = Word.rm /\ Len(a) >= 2 THEN DevRm(a, f)
    ELSE IF a[1] = Word.cat /\ Len(a) = 2 THEN DevCat(a, f)
    ELSE IF a[1] = Word.echo /\ Len(a) = 4 /\ a[3] = Word.redirect THEN DevEcho(a, f)
    ELSE IF a[1] = Word.stat /\ Len(a) >= 4 THEN DevStat(a, f, e)
    ELSE IF a[1] = Word.list THEN UtilDone(Lines(e), f)
    ELSE IF a[1] = Word.mv /\ Len(a) >= 3 THEN DevMv(a, f)
    ELSE IF a[1] = Word.help THEN UtilDone(Msg.banner \o <<"\n">>, f)
    ELSE IF a[1] = Word.chown /\ Len(a) = 3 THEN DevChown(a, f, e)
    ELSE IF a[1] = Word.cp /\ Len(a) = 3 THEN DevCp(a, f)
    ELSE IF a[1] = Word.chmod /\ Len(a) = 3 THEN DevChmod(a, f)
    ELSE IF a[1] = Word.ln /\ Len(a) = 4 /\ a[2] = Word.sf THEN DevLn(a, f, e)
    ELSE IF a[1] = Word.readlink /\ Len(a) = 2 THEN DevReadlink(a, f, e)
    ELSE IF a[1] = Word.base64 /\ Len(a) = 2 THEN DevBase64(a, f, e)
    ELSE IF a[1] = Word.sh /\ Len(a) = 3 /\ a[2] = DashC
    THEN Execute(WordTexts(ShellWords(a[3])), f, e)
    ELSE IF Len(a) >= 2 /\ Contains(a[1], <<"s", "u", "m">>) THEN DevSum(a, f, e)
    ELSE [out |-> Msg.syntaxError \o <<"\n">>, status |-> 2, fs |-> f]

\* the device with the multi-call binary installed and nothing else
Installed(f) == Put(f, Cmd.busybox, FileNode(<<>>))

\* the shell starts the program the first word names; the multi-call binary
\* is a file of the device like any other
Launch(w, f, e) ==
    IF w # <<>> /\ w[1] = Cmd.busybox /\ Kind(f, Cmd.busybox) # "file"
    THEN LET failed == UtilFails(Word.shell, w[1], Msg.notFound, 127, f)
         IN  \* 'busybox test ... && echo X || echo Y': the shell goes on to Y
             IF Len(w) = 10 /\ w[2] = Word.test
             THEN UtilDone(failed.out \o w[10] \o <<"\n">>, f)
             ELSE failed
    ELSE Execute(DropBusybox(w), f, e)

Device(command, f, e) == Launch(Argv(command), f, e)

\* ------------------------------------------------- channel under the files
\* Rish.run: the command line it hands to the loader
Wrapped(command_string) == command_string \o Cmd.wrapTail \o Token \o Cmd.status

\* str(e) of what Rish.run raises when the channel fails
TransportMessage(ch, command) ==
    IF ch = "timeout"
    THEN Msg.command \o Repr(Wrapped(Cmd.c \o Repr(command))) \o Msg.timedOut
    ELSE Msg.errno2

\* what ADBFileManager._run_command returns once the device has done d
Carried(d) ==
    [result |-> RunCommandResult(Returned(RunResult(
                    ShellOutput([out |-> d.out, status |-> d.status,
                                 exits |-> FALSE])))),
     fs |-> d.fs]

\* ADBFileManager._run_command over a channel that carries the command out
\* (ch = "ok") or fails before the device has done anything
RunCommand(command, f, e, ch) ==
    IF ch = "ok" THEN Carried(Device(command, f, e))
    ELSE [result |-> [returncode |-> 1, stdout |-> <<>>,
                      stderr |-> TransportMessage(ch, command)],
          fs |-> f]

\* one of the texts occurs in s
AnyIn(s, texts) == \E t \in texts : Contains(s, t)

\* stdout.strip(), then stderr.strip() unless it holds one of the indicators
Combined(result, indicators) ==
    LET out == Strip(result.stdout)
        err == Strip(result.stderr)
    IN  IF err # <<>> /\ ~AnyIn(Lower(err), indicators)
        THEN (IF out # <<>> THEN out \o <<" ">> \o err ELSE err)
        ELSE out

\* ADBFileManager._get_output
GetOutput(result) ==
    Combined(result, {Ind.error, Ind.failed, Ind.permissionDenied, Ind.noSuchFile})

\* BusyBoxManager._run_command: the text it makes of a result
BusyBoxOutput(result) ==
    Combined(result, {Ind.error, Ind.failed, Ind.permissionDenied, Ind.cannot,
                      Ind.noSuch})

\* ------------------------------------------------------------ return values
RetNone == [tag |-> "None", bool |-> FALSE, text |-> <<>>, keys |-> {}]

RetBool(b) == [tag |-> "bool", bool |-> b, text |-> <<>>, keys |-> {}]

RetText(t) == [tag |-> "str", bool |-> FALSE, text |-> t, keys |-> {}]

RetDict(keys) == [tag |-> "dict", bool |-> FALSE, text |-> <<>>, keys |-> keys]

\* a list of texts, as get_applets returns it
RetList(texts) == [tag |-> "list", bool |-> FALSE, text |-> <<>>, keys |-> texts]

RetRaised == [tag |-> "raised", bool |-> FALSE, text |-> <<>>, keys |-> {}]

\* what a backend method did: its return value, the file system afterwards,
\* the commands it dispatched, what it logged, and BusyBoxManager's fields
Did(ret, f, cmds, logged, b) ==
    [ret |-> ret, fs |-> f, sent |-> cmds, log |-> logged, bb |-> b]

\* ----------------------------------------------------------- ADBFileManager
\* 'not path or not path.strip()'
Blank(p) == p = <<>> \/ Strip(p) = <<>>

\* the early return of every ADBFileManager method for a blank path
AdbEmptyPath(ret, f, b) == Did(ret, f, <<>>, {"empty path"}, b)

\* the shape ADBFileManager.exists, is_file and is_dir share
AdbQuery(test, echo, needle, p, f, e, ch, b) ==
    IF Blank(p) THEN AdbEmptyPath(RetBool(FALSE), f, b)
    ELSE LET cmd == test \o Repr(Strip(p)) \o echo
             r   == RunCommand(cmd, f, e, ch)
         IN  Did(RetBool(Contains(GetOutput(r.result), needle)), r.fs, <<cmd>>, {}, b)

AdbExists(p, f, e, ch, b) ==
    AdbQuery(Cmd.testE, Cmd.echoExists, Ind.exists, p, f, e, ch, b)

AdbIsFile(p, f, e, ch, b) ==
    AdbQuery(Cmd.testF, Cmd.echoFile, Ind.file, p, f, e, ch, b)

AdbIsDir(p, f, e, ch, b) ==
    AdbQuery(Cmd.testD, Cmd.echoDir, Ind.dir, p, f, e, ch, b)

\* ADBFileManager.mkdir
AdbMkdir(p, parents, f, e, ch, b) ==
    IF Blank(p) THEN AdbEmptyPath(RetBool(FALSE), f, b)
    ELSE LET cmd == Cmd.mkdir \o (IF parents THEN Cmd.p ELSE <<>>) \o Repr(Strip(p))
             r   == RunCommand(cmd, f, e, ch)
             success ==
                 \/ r.result.stderr = <<>>
                 \/ (Contains(r.result.stderr, Ind.FileExists) /\ parents)
                 \/ Contains(GetOutput(r.result), Ind.exists)
         IN  Did(RetBool(success), r.fs, <<cmd>>, {}, b)

\* ADBFileManager.remove
AdbRemove(p, recursive, f, e, ch, b) ==
    IF Blank(p) THEN AdbEmptyPath(RetBool(FALSE), f, b)
    ELSE LET cmd == Cmd.rm \o (IF recursive THEN Cmd.rf ELSE Cmd.f) \o Repr(Strip(p))
             r   == RunCommand(cmd, f, e, ch)
             success ==
                 \/ r.result.stderr = <<>>
                 \/ Contains(r.result.stderr, Ind.NoSuchFile)
                 \/ Contains(Lower(r.result.stderr), Ind.notFound)
         IN  Did(RetBool(success), r.fs, <<cmd>>, {}, b)

\* ADBFileManager.copy
AdbCopy(src, dst, f, e, ch, b) ==
    IF Blank(src) \/ Blank(dst)
    THEN Did(RetBool(FALSE), f, <<>>, {"empty source or destination"}, b)
    ELSE LET cmd == Cmd.cp \o Repr(Strip(src)) \o <<" ">> \o Repr(Strip(dst))
             r   == RunCommand(cmd, f, e, ch)
         IN  Did(RetBool(r.result.stderr = <<>> \/ Contains(r.result.stderr, Ind.exists)),
                 r.fs, <<cmd>>, {}, b)

\* ADBFileManager.chmod
AdbChmod(p, mode, f, e, ch, b) ==
    IF Blank(p) THEN AdbEmptyPath(RetBool(FALSE), f, b)
    ELSE LET cmd == Cmd.chmod \o mode \o <<" ">> \o Repr(Strip(p))
             r   == RunCommand(cmd, f, e, ch)
         IN  Did(RetBool(r.result.stderr = <<>>), r.fs, <<cmd>>, {}, b)

\* ADBFileManager.read
AdbRead(p, f, e, ch, b) ==
    IF Blank(p) THEN AdbEmptyPath(RetNone, f, b)
    ELSE LET cmd == Cmd.cat \o Repr(Strip(p))
             r   == RunCommand(cmd, f, e, ch)
         IN  Did(IF r.result.stdout # <<>> THEN RetText(r.result.stdout) ELSE RetNone,
                 r.fs, <<cmd>>, {}, b)

\* ADBFileManager.write
AdbWrite(p, content, f, e, ch, b) ==
    IF Blank(p) THEN AdbEmptyPath(RetBool(FALSE), f, b)
    ELSE LET cmd == Cmd.echo \o EscapeContent(content) \o Cmd.to \o Repr(Strip(p))
             r   == RunCommand(cmd, f, e, ch)
         IN  Did(RetBool(r.result.stderr = <<>>), r.fs, <<cmd>>, {}, b)

\* the test ADBFileManager.checksum applies to the result of a hash utility
AdbDigestFound(result) ==
    /\ GetOutput(result) # <<>>
    /\ ~(result.stderr # <<>>
           /\ AnyIn(Lower(result.stderr), {Ind.error, Ind.failed, Ind.notFound}))

\* ADBFileManager.checksum
AdbChecksum(p, hash_type, f, e, ch, b) ==
    IF Blank(p) THEN AdbEmptyPath(RetNone, f, b)
    ELSE LET cmd1 == hash_type \o Cmd.sum \o Repr(Strip(p)) \o Cmd.orEcho
             r1   == RunCommand(cmd1, f, e, ch)
             cmd2 == Word.md5 \o Cmd.sum \o Repr(Strip(p)) \o Cmd.orEcho
             r2   == RunCommand(cmd2, r1.fs, e, ch)
         IN  IF AdbDigestFound(r1.result)
             THEN Did(RetText(FirstWord(GetOutput(r1.result))), r1.fs, <<cmd1>>,
                      {"type=hash_type"}, b)
             ELSE IF hash_type = Word.md5
             THEN Did(RetNone, r1.fs, <<cmd1>>, {"checksum failed"}, b)
             ELSE IF AdbDigestFound(r2.result)
             THEN Did(RetText(FirstWord(GetOutput(r2.result))), r2.fs, <<cmd1, cmd2>>,
                      {"type=md5 (fallback)"}, b)
             ELSE Did(RetNone, r2.fs, <<cmd1, cmd2>>, {"checksum failed"}, b)

\* ----------------------------------------------------------- BusyBoxManager
\* BusyBoxManager.__init__
\* _available is "None", "True" or "False"; _applets is None until known
NewBusyBox == [available |-> "True", applets |-> [known |-> FALSE, list |-> {}]]

\* the text BusyBoxManager._run_command makes of the result r of cmd
BbText(cmd, r) == [text |-> BusyBoxOutput(r.result), fs |-> r.fs, cmd |-> cmd]

BbSend(cmd, f, e, ch) == BbText(cmd, RunCommand(cmd, f, e, ch))

\* BusyBoxManager._run_command: the command it hands on, the text it returns.
\* is_available() returns _available, which __init__ sets and nothing clears
BbRun(command, use_busybox, f, e, ch, b) ==
    BbSend(IF use_busybox /\ b.available = "True"
           THEN Cmd.busybox \o <<" ">> \o command ELSE command, f, e, ch)

\* str.splitlines() followed by strip() of each line, blank lines dropped
RECURSIVE StrippedLines(_)
StrippedLines(s) ==
    IF s = <<>> THEN {}
    ELSE IF Contains(s, <<"\n">>)
    THEN LET parts == SplitOnce(s, <<"\n">>)
         IN  ({Strip(parts[1])} \ {<<>>}) \cup StrippedLines(parts[2])
    ELSE {Strip(s)} \ {<<>>}

\* the inventory read from the listing r, memoised in the fields
Listed(r, b) ==
    [list |-> StrippedLines(r.text),
     bb |-> [b EXCEPT !.applets = [known |-> TRUE, list |-> StrippedLines(r.text)]],
     sent |-> <<r.cmd>>]

\* get_applets without the test of _applets: it lists again each time
GetAppletsAgain(f, e, ch, b) ==
    IF b.available # "True" THEN [list |-> {}, bb |-> b, sent |-> <<>>]
    ELSE Listed(BbRun(Cmd.busybox \o Cmd.list, FALSE, f, e, ch, b), b)

\* BusyBoxManager.get_applets: the applets, the fields afterwards, the
\* command it dispatched if it had to ask
GetApplets(f, e, ch, b) ==
    IF b.applets.known THEN [list |-> b.applets.list, bb |-> b, sent |-> <<>>]
    ELSE IF b.available # "True" THEN [list |-> {}, bb |-> b, sent |-> <<>>]
    ELSE Listed(BbRun(Cmd.busybox \o Cmd.list, FALSE, f, e, ch, b), b)

\* BusyBoxManager.has_applet
HasApplet(applet, applets, f) ==
    Did(RetBool(applet \in applets.list), f, applets.sent, {}, applets.bb)

\* the self-test r of is_available: 'BusyBox' in the text decides
SelfTested(found, r, b) ==
    Did(RetBool(Contains(r.text, Ind.BusyBox)), r.fs, found.sent \o <<r.cmd>>,
        {IF Contains(r.text, Ind.BusyBox) THEN "Available"
                                          ELSE "Not executable or broken"},
        [b EXCEPT !.available = IF Contains(r.text, Ind.BusyBox) THEN "True"
                                                                 ELSE "False"])

\* the probe of is_available: adb.exists(busybox_cmd), then the self-test
Probed(found, f, e, ch, b) ==
    IF ~found.ret.bool
    THEN Did(RetBool(FALSE), found.fs, found.sent,
             {"BusyBox not found at specified path"}, [b EXCEPT !.available = "False"])
    ELSE SelfTested(found, BbSend(Cmd.busybox \o Cmd.help, found.fs, e, ch), b)

\* is_available without the test of _available
IsAvailableProbing(f, e, ch, b) == Probed(AdbExists(Cmd.busybox, f, e, ch, b), f, e, ch, b)

\* BusyBoxManager.is_available
IsAvailable(f, e, ch, b) ==
    IF b.available # "None" THEN Did(RetBool(b.available = "True"), f, <<>>, {}, b)
    ELSE Probed(AdbExists(Cmd.busybox, f, e, ch, b), f, e, ch, b)

\* the shape BusyBoxManager.exists, is_file and is_dir share
BbFound(needle, r, b) ==
    Did(RetBool(Contains(r.text, needle)), r.fs, <<r.cmd>>, {}, b)

BbQuery(test, echo, needle, p, f, e, ch, b) ==
    BbFound(needle, BbRun(test \o Repr(p) \o echo, TRUE, f, e, ch, b), b)

BbExists(p, f, e, ch, b) ==
    BbQuery(Cmd.testE, Cmd.echoExists, Ind.exists, p, f, e, ch, b)

BbIsFile(p, f, e, ch, b) ==
    BbQuery(Cmd.testF, Cmd.echoFile, Ind.file, p, f, e, ch, b)

BbIsDir(p, f, e, ch, b) ==
    BbQuery(Cmd.testD, Cmd.echoDir, Ind.dir, p, f, e, ch, b)

\* BusyBoxManager.mkdir without a mode
BbMkdir(p, parents, f, e, ch, b) ==
    LET r == BbRun(Cmd.mkdir \o (IF parents THEN Cmd.p ELSE <<>>) \o Repr(p),
                   TRUE, f, e, ch, b)
        success == ~AnyIn(Lower(r.text), {Ind.error, Ind.cannot, Ind.failed})
    IN  Did(RetBool(success), r.fs, <<r.cmd>>, {}, b)

\* BusyBoxManager.remove with force
BbRemove(p, recursive, f, e, ch, b) ==
    LET r == BbRun(Cmd.rm \o (IF recursive THEN Cmd.r ELSE <<>>) \o Cmd.f \o Repr(p),
                   TRUE, f, e, ch, b)
        success == \/ ~Contains(Lower(r.text), Ind.error)
                   \/ Contains(Lower(r.text), Ind.noSuchFile)
    IN  Did(RetBool(success), r.fs, <<r.cmd>>, {}, b)

\* the command BusyBoxManager.move builds, with force
MoveCommand(src, dst) ==
    IF (\E i \in 1..Len(src) : src[i] \in {"*", "?"})
    THEN Cmd.shMv \o Cmd.f \o src \o <<" ">> \o dst \o <<"'">>
    ELSE Cmd.mv \o Cmd.f \o Repr(src) \o <<" ">> \o Repr(dst)

MoveDone(r, b) ==
    Did(RetBool(~Contains(Lower(r.text), Ind.error)), r.fs, <<r.cmd>>, {}, b)

\* BusyBoxManager.move
BbMove(src, dst, f, e, ch, b) == MoveDone(BbRun(MoveCommand(src, dst), TRUE, f, e, ch, b), b)

\* BusyBoxManager.read_text: 'if result or result == ""' holds for every text
BbReadText(p, f, e, ch, b) ==
    LET r == BbRun(Cmd.cat \o Repr(p), TRUE, f, e, ch, b)
    IN  IF r.text # <<>> \/ r.text = <<>>
        THEN Did(RetText(r.text), r.fs, <<r.cmd>>, {}, b)
        ELSE Did(RetNone, r.fs, <<r.cmd>>, {"read_text failed"}, b)

\* BusyBoxManager.write_text
BbWriteText(p, content, f, e, ch, b) ==
    LET r == BbRun(Cmd.echo \o EscapeContent(content) \o Cmd.to \o Repr(p),
                   TRUE, f, e, ch, b)
    IN  Did(RetBool(~Contains(Lower(r.text), Ind.error)), r.fs, <<r.cmd>>, {}, b)

\* supported_hashes of BusyBoxManager.checksum
SupportedHashes == {Word.md5, Word.sha1, Word.sha256, Word.sha512}

\* the digest BusyBoxManager.checksum makes of the text r of the hash applet
BbDigest(r, applets) ==
    IF r.text # <<>> /\ ~AnyIn(Lower(r.text), {Ind.error, Ind.noSuchFile})
    THEN Did(RetText(FirstWord(r.text)), r.fs, applets.sent \o <<r.cmd>>,
             {"checksum"}, applets.bb)
    ELSE Did(RetNone, r.fs, applets.sent \o <<r.cmd>>, {"checksum failed"},
             applets.bb)

\* BusyBoxManager.checksum from has_applet(hash_cmd) on
BbChecksumWith(hash_cmd, applets, p, f, e, ch) ==
    IF hash_cmd \notin applets.list
    THEN Did(RetNone, f, applets.sent, {"not supported"}, applets.bb)
    ELSE BbDigest(BbRun(hash_cmd \o <<" ">> \o Repr(p), TRUE, f, e, ch, applets.bb),
                  applets)

\* BusyBoxManager.checksum
BbChecksum(p, hash_type, f, e, ch, b) ==
    IF Lower(hash_type) \notin SupportedHashes
    THEN Did(RetNone, f, <<>>, {"not supported"}, b)
    ELSE BbChecksumWith(Lower(hash_type) \o <<"s", "u", "m">>,
                        GetApplets(f, e, ch, b), p, f, e, ch)

\* the capability-absence result: logged, and nothing dispatched beyond what
\* has_applet needed
Unsupported(ret, applets, f, logged) ==
    Did(ret, f, applets.sent, {logged}, applets.bb)

\* 'success = "error" not in result.lower()' of the text r
NoErrorIn(r, applets, logged) ==
    Did(RetBool(~Contains(Lower(r.text), Ind.error)), r.fs,
        applets.sent \o <<r.cmd>>, {logged}, applets.bb)

\* chown without the test of the inventory
BbChownUnguarded(applets, p, owner, f, e, ch) ==
    NoErrorIn(BbRun(Cmd.chown \o owner \o <<" ">> \o Repr(p), TRUE, f, e, ch,
                    applets.bb), applets, "chown")

\* BusyBoxManager.chown from has_applet('chown') on
BbChownWith(applets, p, owner, f, e, ch) ==
    IF Word.chown \notin applets.list
    THEN Unsupported(RetBool(FALSE), applets, f, "chown applet not available")
    ELSE NoErrorIn(BbRun(Cmd.chown \o owner \o <<" ">> \o Repr(p), TRUE, f, e, ch,
                         applets.bb), applets, "chown")

\* BusyBoxManager.chown(path, owner)
BbChown(p, owner, f, e, ch, b) ==
    BbChownWith(GetApplets(f, e, ch, b), p, owner, f, e, ch)

BbCreateSymlinkWith(applets, target, link_path, f, e, ch) ==
    IF Word.ln \notin applets.list
    THEN Unsupported(RetBool(FALSE), applets, f, "ln applet not available")
    ELSE NoErrorIn(BbRun(Cmd.ln \o Repr(target) \o <<" ">> \o Repr(link_path), TRUE,
                         f, e, ch, applets.bb), applets, "create_symlink")

\* BusyBoxManager.create_symlink
BbCreateSymlink(target, link_path, f, e, ch, b) ==
    BbCreateSymlinkWith(GetApplets(f, e, ch, b), target, link_path, f, e, ch)

\* what read_symlink makes of the text r of readlink
LinkRead(r, applets) ==
    IF r.text # <<>> /\ ~Contains(Lower(r.text), Ind.error)
    THEN Did(RetText(Strip(r.text)), r.fs, applets.sent \o <<r.cmd>>,
             {"read_symlink"}, applets.bb)
    ELSE Did(RetNone, r.fs, applets.sent \o <<r.cmd>>, {}, applets.bb)

BbReadSymlinkWith(applets, link_path, f, e, ch) ==
    IF Word.readlink \notin applets.list
    THEN Unsupported(RetNone, applets, f, "readlink applet not available")
    ELSE LinkRead(BbRun(Cmd.readlink \o Repr(link_path), TRUE, f, e, ch, applets.bb),
                  applets)

\* BusyBoxManager.read_symlink
BbReadSymlink(link_path, f, e, ch, b) ==
    BbReadSymlinkWith(GetApplets(f, e, ch, b), link_path, f, e, ch)

\* the characters a content of the model is made of
ContentChars == {"a", " ", "\n", "R", ":", "7"}

\* the text is an encoding: pairs of characters of the encoding's alphabet
IsEncoding(text) ==
    /\ Len(text) % 2 = 0
    /\ \A i \in 1..(Len(text) \div 2) :
           \E c \in ContentChars \cup {"?"} : HexChar(c) = <<text[2 * i - 1], text[2 * i]>>

\* base64.b64decode of an encoding
Decoded(text) ==
    [i \in 1..(Len(text) \div 2) |->
        CHOOSE c \in ContentChars \cup {"?"} : HexChar(c) = <<text[2 * i - 1], text[2 * i]>>]

\* what read_bytes makes of the text r of base64
BytesRead(r, applets) ==
    IF r.text = <<>> THEN Did(RetNone, r.fs, applets.sent \o <<r.cmd>>, {}, applets.bb)
    ELSE IF IsEncoding(r.text)
    THEN Did(RetText(Decoded(r.text)), r.fs, applets.sent \o <<r.cmd>>,
             {"read_bytes"}, applets.bb)
    ELSE Did(RetNone, r.fs, applets.sent \o <<r.cmd>>, {"read_bytes decode failed"},
             applets.bb)

BbReadBytesWith(applets, p, f, e, ch) ==
    IF Word.base64 \notin applets.list
    THEN Unsupported(RetNone, applets, f, "base64 applet not available for binary read")
    ELSE BytesRead(BbRun(Cmd.base64 \o Repr(p), TRUE, f, e, ch, applets.bb), applets)

\* BusyBoxManager.read_bytes
BbReadBytes(p, f, e, ch, b) == BbReadBytesWith(GetApplets(f, e, ch, b), p, f, e, ch)

\* a comparison that accepts no digest
HashNeverMatches(actual, expected) == FALSE

\* 'actual_hash == expected_hash if actual_hash else False'
HashMatches(actual, expected) ==
    IF actual.tag = "str" /\ actual.text # <<>> THEN actual = expected ELSE FALSE

\* BusyBoxManager.verify_checksum
Verified(d, expected) ==
    Did(RetBool(HashMatches(d.ret, expected)), d.fs, d.sent, d.log, d.bb)

BbVerifyChecksum(p, expected, hash_type, f, e, ch, b) ==
    Verified(BbChecksum(p, hash_type, f, e, ch, b), expected)

\* str.split(sep) for a one-character separator
RECURSIVE Split(_, _)
Split(s, sep) ==
    IF Contains(s, sep)
    THEN <<SplitOnce(s, sep)[1]>> \o Split(SplitOnce(s, sep)[2], sep)
    ELSE <<s>>

\* keys of the dictionary BusyBoxManager.get_info builds from the one stat call
StatKeys ==
    {"name", "size", "type", "owner", "group", "permissions", "mtime", "atime",
     "ctime", "is_file", "is_dir"}

\* keys of the dictionary it builds from separate queries otherwise
BasicKeys == {"path", "exists", "is_file", "is_dir", "size", "mtime"}

\* keys of the dictionary PyFManager.get_info builds
PyInfoKeys ==
    {"path", "name", "parent", "size", "mtime", "ctime", "atime", "is_file",
     "is_dir", "permissions"}

\* the nine fields of the stat line convert: int() of the size, float() of
\* the three times
StatParses(parts) ==
    /\ Len(parts) = 9
    /\ \A i \in {2, 7, 8, 9} : parts[i] # <<>> /\ AllDigits(parts[i])

\* BusyBoxManager.get_size / get_mtime: one more command
BbStatField(cmdHead, p, f, e, ch, b) ==
    BbRun(cmdHead \o Repr(p) \o Cmd.orEcho, TRUE, f, e, ch, b)

\* BusyBoxManager.get_info once the stat line has split into nine parts; cmds
\* are the commands dispatched so far
BbInfoBatched(parts, cmds, p, f, e, ch, b) ==
    IF ~StatParses(parts) THEN Did(RetNone, f, cmds, {"get_info failed"}, b)
    ELSE Did(RetDict(StatKeys), f,
             cmds \o BbIsFile(p, f, e, ch, b).sent \o BbIsDir(p, f, e, ch, b).sent,
             {"get_info"}, b)

\* its fallback to separate queries
BbInfoBasic(cmds, p, f, e, ch, b) ==
    Did(RetDict(BasicKeys), f,
        cmds \o BbIsFile(p, f, e, ch, b).sent \o BbIsDir(p, f, e, ch, b).sent
             \o <<BbStatField(Cmd.statSize, p, f, e, ch, b).cmd,
                  BbStatField(Cmd.statMtime, p, f, e, ch, b).cmd>>,
        {"get_info (basic)"}, b)

\* BusyBoxManager.get_info given what exists and stat gave
BbInfoOf(ex, st, p, f, e, ch, b) ==
    IF ~ex.ret.bool THEN Did(RetNone, f, ex.sent, {}, b)
    ELSE IF st.text # <<>> /\ Contains(st.text, Ind.bar)
              /\ Len(Split(Strip(st.text), Ind.bar)) = 9
    THEN BbInfoBatched(Split(Strip(st.text), Ind.bar), ex.sent \o <<st.cmd>>,
                       p, f, e, ch, b)
    ELSE BbInfoBasic(ex.sent \o <<st.cmd>>, p, f, e, ch, b)

\* BusyBoxManager.get_info; none of its queries changes the file system
BbGetInfo(p, f, e, ch, b) ==
    BbInfoOf(BbExists(p, f, e, ch, b),
             BbRun(Cmd.statAll \o Repr(p), TRUE, f, e, ch, b), p, f, e, ch, b)

\* ---------------------------------------------------------------- PyFManager
\* pathlib.Path(p): the empty text names the working directory
PyPath(p) == IF p = <<>> THEN Cwd ELSE p

PyExists(p, f, b) == Did(RetBool(Kind(f, PyPath(p)) # "absent"), f, <<>>, {}, b)

PyIsFile(p, f, b) == Did(RetBool(Kind(f, PyPath(p)) = "file"), f, <<>>, {}, b)

PyIsDir(p, f, b) == Did(RetBool(Kind(f, PyPath(p)) = "dir"), f, <<>>, {}, b)

\* PyFManager.mkdir with parents and the default exist_ok=True
PyMkdir(p, f, b) ==
    LET k == Kind(f, PyPath(p))
    IN  IF k = "dir" THEN Did(RetBool(TRUE), f, <<>>, {}, b)
        ELSE IF k = "file" \/ CreateError(PyPath(p)) # <<>>
        THEN Did(RetBool(FALSE), f, <<>>, {"mkdir failed"}, b)
        ELSE Did(RetBool(TRUE), Put(f, PyPath(p), DirNode), <<>>, {}, b)

\* remove with unlink(missing_ok=False): a missing path is an error
PyRemoveStrict(p, f, b) ==
    IF Kind(f, PyPath(p)) = "absent" \/ PyPath(p) = Cwd
    THEN Did(RetBool(FALSE), f, <<>>, {"remove failed"}, b)
    ELSE Did(RetBool(TRUE), Del(f, PyPath(p)), <<>>, {}, b)

\* PyFManager.remove: rmtree of a directory, unlink(missing_ok=True) otherwise;
\* rmtree of the working directory ends in an error of rmdir('.')
PyRemove(p, f, b) ==
    LET k == Kind(f, PyPath(p))
    IN  IF PyPath(p) = Cwd THEN Did(RetBool(FALSE), f, <<>>, {"remove failed"}, b)
        ELSE IF k = "absent" THEN Did(RetBool(TRUE), f, <<>>, {}, b)
        ELSE Did(RetBool(TRUE), Del(f, PyPath(p)), <<>>, {}, b)

\* os.rename of src to target, which replaces a file that is there
MovedTo(src, target, f, b) ==
    IF CreateError(target) # <<>> \/ Kind(f, target) = "dir"
    THEN Did(RetBool(FALSE), f, <<>>, {"move failed"}, b)
    ELSE Did(RetBool(TRUE), Put(Del(f, src), target, f[src]), <<>>, {"move"}, b)

\* shutil.move(src, dst): a dst that is a directory takes src inside it, and a
\* missing src is an error
ShutilMove(src, dst, f, b) ==
    IF Kind(f, src) = "absent" THEN Did(RetBool(FALSE), f, <<>>, {"move failed"}, b)
    ELSE IF Kind(f, dst) # "dir" THEN MovedTo(src, dst, f, b)
    ELSE IF Kind(f, dst \o <<"/">> \o Base(src)) # "absent"
    THEN Did(RetBool(FALSE), f, <<>>, {"move failed"}, b)
    ELSE MovedTo(src, dst \o <<"/">> \o Base(src), f, b)

\* PyFManager.move: an existing dst is removed first when overwrite is set
PyMove(src, dst, overwrite, f, b) ==
    IF Kind(f, PyPath(dst)) = "absent" THEN ShutilMove(PyPath(src), PyPath(dst), f, b)
    ELSE IF overwrite
    THEN ShutilMove(PyPath(src), PyPath(dst), PyRemove(dst, f, b).fs, b)
    ELSE Did(RetBool(FALSE), f, <<>>, {}, b)

\* PyFManager.read_text
PyReadText(p, f, b) ==
    IF Kind(f, PyPath(p)) = "file"
    THEN Did(RetText(f[PyPath(p)].content), f, <<>>, {}, b)
    ELSE Did(RetNone, f, <<>>, {"read_text failed"}, b)

\* PyFManager.write_text
PyWriteText(p, content, f, b) ==
    LET k == Kind(f, PyPath(p))
    IN  IF k = "dir" \/ (k = "absent" /\ CreateError(PyPath(p)) # <<>>)
        THEN Did(RetBool(FALSE), f, <<>>, {"write_text failed"}, b)
        ELSE Did(RetBool(TRUE), Put(f, PyPath(p), FileNode(content)), <<>>, {}, b)

\* PyFManager.checksum: hashlib has the algorithms the utilities implement
PyChecksum(p, hash_type, f, b) ==
    IF hash_type \in SupportedHashes /\ Kind(f, PyPath(p)) = "file"
    THEN Did(RetText(Digest(hash_type \o <<"s", "u", "m">>, f[PyPath(p)].content)),
             f, <<>>, {"checksum"}, b)
    ELSE Did(RetNone, f, <<>>, {"checksum failed"}, b)

\* PyFManager.verify_checksum
PyVerifyChecksum(p, expected, hash_type, f, b) ==
    Verified(PyChecksum(p, hash_type, f, b), expected)

\* PyFManager.get_info: Path.stat() raises for a missing path
PyGetInfo(p, f, b) ==
    IF Kind(f, PyPath(p)) = "absent" THEN Did(RetRaised, f, <<>>, {}, b)
    ELSE Did(RetDict(PyInfoKeys), f, <<>>, {}, b)

\* ------------------------------------------------------- file operations
\* the paths file operations are called with: empty, blank, a path the caller
\* may use freely, and a path it may not create
PathX == <<"/", "x">>

OpPaths == {<<>>, <<" ">>, PathX, SysPath}

\* the paths the methods that change the file system are called with
ChangedPaths == {<<>>, PathX, SysPath}

\* the texts written
WriteContents == {<<"a">>, <<" ", "a", " ">>, <<"R", ":", "7">>}
\* the contents written and read back: those, and one holding a single quote
RoundTripContents == WriteContents \cup {<<"'">>}

\* the hash_type values asked for
HashTypes == {Word.md5, Word.sha256}

\* utilities a device can have: all of them, or md5sum alone
AllUtils == {Word.md5sum, Word.sha256sum, Word.stat}

Envs == {AllUtils, {Word.md5sum}}

\* how the channel treats the commands of one file operation
Chans == {"ok", "timeout", "oserror"}

Backends == {"adb", "busybox", "pyf"}

\* what PathX can be before the first file operation
InitNodes == {DirNode, FileNode(<<>>), FileNode(<<"a", "\n">>)}

OnlyCwd == [q \in {Cwd} |-> DirNode]

\* the working directory and the installed binary, nothing else
Fresh == Installed(OnlyCwd)

InitFs == {Fresh} \cup {Put(Fresh, PathX, n) : n \in InitNodes}

NoFCall ==
    [backend |-> "none", op |-> "none", path |-> <<>>, arg |-> <<>>,
     expected |-> RetNone, flag |-> FALSE]

\* no file operation has been called since the caller took the last result
FilesIdle ==
    /\ fsBefore = fs
    /\ fcall = NoFCall
    /\ fret = RetNone
    /\ sent = <<>>
    /\ chan = "ok"
    /\ flog = {}

\* a backend method runs from call to return
Return(c, ch, d) ==
    /\ fcall = NoFCall
    /\ c.backend = "pyf" => ch = "ok"
    /\ fcall' = c
    /\ chan' = ch
    /\ fsBefore' = fs
    /\ fs' = d.fs
    /\ fret' = d.ret
    /\ sent' = d.sent
    /\ flog' = d.log
    /\ bb' = d.bb
    /\ UNCHANGED << env, channelVars >>

FCall(backend, op, p, arg, expected, flag) ==
    [backend |-> backend, op |-> op, path |-> p, arg |-> arg,
     expected |-> expected, flag |-> flag]

ExistsOn(bk, p, f, e, ch, b) ==
    IF bk = "adb" THEN AdbExists(p, f, e, ch, b)
    ELSE IF bk = "busybox" THEN BbExists(p, f, e, ch, b)
    ELSE PyExists(p, f, b)

IsFileOn(bk, p, f, e, ch, b) ==
    IF bk = "adb" THEN AdbIsFile(p, f, e, ch, b)
    ELSE IF bk = "busybox" THEN BbIsFile(p, f, e, ch, b)
    ELSE PyIsFile(p, f, b)

IsDirOn(bk, p, f, e, ch, b) ==
    IF bk = "adb" THEN AdbIsDir(p, f, e, ch, b)
    ELSE IF bk = "busybox" THEN BbIsDir(p, f, e, ch, b)
    ELSE PyIsDir(p, f, b)

MkdirOn(bk, p, f, e, ch, b) ==
    IF bk = "adb" THEN AdbMkdir(p, TRUE, f, e, ch, b)
    ELSE IF bk = "busybox" THEN BbMkdir(p, TRUE, f, e, ch, b)
    ELSE PyMkdir(p, f, b)

RemoveOn(bk, p, recursive, f, e, ch, b) ==
    IF bk = "adb" THEN AdbRemove(p, recursive, f, e, ch, b)
    ELSE IF bk = "busybox" THEN BbRemove(p, recursive, f, e, ch, b)
    ELSE PyRemove(p, f, b)

ReadOn(bk, p, f, e, ch, b) ==
    IF bk = "adb" THEN AdbRead(p, f, e, ch, b)
    ELSE IF bk = "busybox" THEN BbReadText(p, f, e, ch, b)
    ELSE PyReadText(p, f, b)

WriteOn(bk, p, content, f, e, ch, b) ==
    IF bk = "adb" THEN AdbWrite(p, content, f, e, ch, b)
    ELSE IF bk = "busybox" THEN BbWriteText(p, content, f, e, ch, b)
    ELSE PyWriteText(p, content, f, b)

ChecksumOn(bk, p, hash_type, f, e, ch, b) ==
    IF bk = "adb" THEN AdbChecksum(p, hash_type, f, e, ch, b)
    ELSE IF bk = "busybox" THEN BbChecksum(p, hash_type, f, e, ch, b)
    ELSE PyChecksum(p, hash_type, f, b)

VerifyChecksumOn(bk, p, expected, hash_type, f, e, ch, b) ==
    IF bk = "busybox" THEN BbVerifyChecksum(p, expected, hash_type, f, e, ch, b)
    ELSE PyVerifyChecksum(p, expected, hash_type, f, b)

GetInfoOn(bk, p, f, e, ch, b) ==
    IF bk = "busybox" THEN BbGetInfo(p, f, e, ch, b) ELSE PyGetInfo(p, f, b)

ExistsCall ==
    \E bk \in Backends, p \in OpPaths, ch \in Chans :
        Return(FCall(bk, "exists", p, <<>>, RetNone, FALSE), ch,
               ExistsOn(bk, p, fs, env, ch, bb))

IsFileCall ==
    \E bk \in Backends, p \in OpPaths, ch \in Chans :
        Return(FCall(bk, "is_file", p, <<>>, RetNone, FALSE), ch,
               IsFileOn(bk, p, fs, env, ch, bb))

IsDirCall ==
    \E bk \in Backends, p \in OpPaths, ch \in Chans :
        Return(FCall(bk, "is_dir", p, <<>>, RetNone, FALSE), ch,
               IsDirOn(bk, p, fs, env, ch, bb))

\* mkdir(path, parents=True)
MkdirCall ==
    \E bk \in Backends, p \in ChangedPaths, ch \in Chans :
        Return(FCall(bk, "mkdir", p, <<>>, RetNone, TRUE), ch,
               MkdirOn(bk, p, fs, env, ch, bb))

\* ADBFileManager.mkdir(path) with the default parents=False
PlainMkdirCall ==
    \E p \in ChangedPaths, ch \in Chans :
        Return(FCall("adb", "mkdir", p, <<>>, RetNone, FALSE), ch,
               AdbMkdir(p, FALSE, fs, env, ch, bb))

\* remove(path) and, on the shell backends, remove(path, recursive=True)
RemoveCall ==
    \E bk \in Backends, p \in ChangedPaths, ch \in Chans, recursive \in BOOLEAN :
        /\ bk = "pyf" => ~recursive
        /\ Return(FCall(bk, "remove", p, <<>>, RetNone, recursive), ch,
                  RemoveOn(bk, p, recursive, fs, env, ch, bb))

\* read(path) / read_text(path)
ReadCall ==
    \E bk \in Backends, p \in OpPaths, ch \in Chans :
        Return(FCall(bk, "read", p, <<>>, RetNone, FALSE), ch,
               ReadOn(bk, p, fs, env, ch, bb))

\* write(path, content) / write_text(path, content)
WriteCall ==
    \E bk \in Backends, p \in ChangedPaths, ch \in Chans, content \in WriteContents :
        Return(FCall(bk, "write", p, content, RetNone, FALSE), ch,
               WriteOn(bk, p, content, fs, env, ch, bb))

ChecksumCall ==
    \E bk \in Backends, p \in OpPaths, ch \in Chans, hash_type \in HashTypes :
        Return(FCall(bk, "checksum", p, hash_type, RetNone, FALSE), ch,
               ChecksumOn(bk, p, hash_type, fs, env, ch, bb))

\* verify_checksum(path, expected, hash_type) with the value checksum(path,
\* hash_type) gives in this state over a working channel, or with another digest
\* a digest no file has
WrongDigest == RetText(<<"0">>)

VerifyChecksumCall ==
    \E bk \in {"busybox", "pyf"}, p \in OpPaths, ch \in Chans, hash_type \in HashTypes :
        \E expected \in {ChecksumOn(bk, p, hash_type, fs, env, "ok", bb).ret,
                         WrongDigest} :
            Return(FCall(bk, "verify_checksum", p, hash_type, expected, FALSE), ch,
                   VerifyChecksumOn(bk, p, expected, hash_type, fs, env, ch, bb))

GetInfoCall ==
    \E bk \in {"busybox", "pyf"}, p \in OpPaths, ch \in Chans :
        Return(FCall(bk, "get_info", p, <<>>, RetNone, FALSE), ch,
               GetInfoOn(bk, p, fs, env, ch, bb))

\* what a caller has after two calls in a row: the second return value, the
\* commands and log entries of both
Both(first, second) ==
    Did(second.ret, second.fs, first.sent \o second.sent,
        first.log \cup second.log, second.bb)

ReadAfter(w, bk, p, e, ch) == Both(w, ReadOn(bk, p, w.fs, e, ch, w.bb))

\* write(path, content) and then read(path) on the same backend, over a
\* channel that carries both commands
WriteReadCall ==
    \E bk \in Backends, content \in RoundTripContents :
        \E w \in {WriteOn(bk, PathX, content, fs, env, "ok", bb)} :
            Return(FCall(bk, "write_read", PathX, content, RetNone, FALSE), "ok",
                   ReadAfter(w, bk, PathX, env, "ok"))

\* paths made of a letter and of the characters quoting has to cope with
QuoteChars == {"a", "'", "\"", "$", " ", "*"}

MaxPathLen == 2

QuotePaths == UNION {[1..n -> QuoteChars] : n \in 1..MaxPathLen}

PathY == <<"/", "y">>

\* exists(path) on a shell backend for such a path
QuotedExistsCall ==
    \E bk \in {"adb", "busybox"}, p \in QuotePaths :
        Return(FCall(bk, "exists", p, <<>>, RetNone, FALSE), "ok",
               ExistsOn(bk, p, fs, env, "ok", bb))

\* BusyBoxManager.move(src, dst) for such a source, and for a file that is there
MoveCall ==
    \E src \in QuotePaths \cup {PathX} :
        Return(FCall("busybox", "move", src, PathY, RetNone, TRUE), "ok",
               BbMove(src, PathY, fs, env, "ok", bb))

\* the caller takes the result and goes on
FileCallerContinues ==
    /\ fcall # NoFCall
    /\ fcall' = NoFCall
    /\ fret' = RetNone
    /\ sent' = <<>>
    /\ flog' = {}
    /\ chan' = "ok"
    /\ fsBefore' = fs
    /\ UNCHANGED << fs, bb, env, channelVars >>

\* the file backends at rest on a device with nothing but the working directory
FilesAtRest ==
    /\ fs = Fresh
    /\ env = AllUtils
    /\ bb = NewBusyBox
    /\ FilesIdle

\* --------------------------------------------------------- specifications
\* any process start over any state of the three payload files
Init ==
    /\ assets \in RestFiles
    /\ resourcesDir \in BOOLEAN
    /\ resourcesFile \in (IF resourcesDir THEN RestFiles ELSE {NoFile})
    /\ cache \in RestFiles
    /\ pc = "start"
    /\ call = NoCall
    /\ captured = <<>>
    /\ outcome = NoOutcome
    /\ child = "none"
    /\ childReturn = 0
    /\ dexOps = <<>>
    /\ cacheBefore = NoFile
    /\ procStatus = 0
    /\ FilesAtRest

Next ==
    \/ Construct
    \/ AdbRunCommand(SampleCommands)
    \/ DrunCall
    \/ SpawnFails
    \/ SpawnChild
    \/ ChildCompletes
    \/ ChildDies
    \/ TimeoutExpires
    \/ DrunChildExits
    \/ CallerContinues
    \/ NewProcess
    \/ AssetsReplaced
    \/ ResourcesReplaced

Spec == Init /\ [][Next]_vars

\* a constructed Rish over a staged payload, sending every command text that
\* fits the bounds through ADBFileManager._run_command
InitRun ==
    /\ assets = [exists |-> TRUE, content |-> "dexA", mode |-> {"r", "w"}]
    /\ resourcesDir = FALSE
    /\ resourcesFile = NoFile
    /\ cache = [exists |-> TRUE, content |-> "dexA", mode |-> {"r"}]
    /\ pc = "idle"
    /\ call = NoCall
    /\ captured = <<>>
    /\ outcome = NoOutcome
    /\ child = "none"
    /\ childReturn = 0
    /\ dexOps = <<>>
    /\ cacheBefore = NoFile
    /\ procStatus = 0
    /\ FilesAtRest

NextRun ==
    \/ AdbRunCommand(AllCommands)
    \/ SpawnFails
    \/ SpawnChild
    \/ ChildCompletes
    \/ ChildDies
    \/ TimeoutExpires
    \/ CallerContinues

SpecRun == InitRun /\ [][NextRun]_vars

\* a constructed Rish over a staged payload, no call in flight
ChannelIdle ==
    /\ assets = [exists |-> TRUE, content |-> "dexA", mode |-> {"r", "w"}]
    /\ resourcesDir = FALSE
    /\ resourcesFile = NoFile
    /\ cache = [exists |-> TRUE, content |-> "dexA", mode |-> {"r"}]
    /\ pc = "idle"
    /\ call = NoCall
    /\ captured = <<>>
    /\ outcome = NoOutcome
    /\ child = "none"
    /\ childReturn = 0
    /\ dexOps = <<>>
    /\ cacheBefore = NoFile
    /\ procStatus = 0

\* the query, directory and content methods of the three file backends called
\* one at a time, over every state of the modelled paths, on a device with or
\* without the optional utilities
InitFiles ==
    /\ ChannelIdle
    /\ fs \in InitFs
    /\ env \in Envs
    /\ bb = NewBusyBox
    /\ FilesIdle

NextFiles ==
    \/ ExistsCall
    \/ IsFileCall
    \/ IsDirCall
    \/ MkdirCall
    \/ PlainMkdirCall
    \/ RemoveCall
    \/ ReadCall
    \/ WriteCall
    \/ WriteReadCall
    \/ FileCallerContinues

SpecFiles == InitFiles /\ [][NextFiles]_vars

\* the digest and information methods of the backends, over the same states
NextInfo ==
    \/ ChecksumCall
    \/ VerifyChecksumCall
    \/ GetInfoCall
    \/ FileCallerContinues

SpecInfo == InitFiles /\ [][NextInfo]_vars

\* the file backends called with paths that need quoting
NextQuote ==
    \/ QuotedExistsCall
    \/ MoveCall
    \/ FileCallerContinues

SpecQuote == InitFiles /\ [][NextQuote]_vars

\* ------------------------------------------------------- moving a file
\* what PathY can be before the first move
MoveTargets == {DirNode, FileNode(<<>>)}

MoveFs ==
    LET x == {Fresh, Put(Fresh, PathX, FileNode(<<"a", "\n">>))}
    IN  x \cup {Put(f, PathY, n) : f \in x, n \in MoveTargets}

\* PyFManager.move(src, dst, overwrite)
PyMoveCall ==
    \E src \in {PathX, PathY}, dst \in {PathX, PathY}, overwrite \in BOOLEAN :
        Return(FCall("pyf", "move", src, dst, RetNone, overwrite), "ok",
               PyMove(src, dst, overwrite, fs, bb))

\* BusyBoxManager.move(src, dst) with the default force
ShellMoveCall ==
    \E src \in {PathX, PathY}, dst \in {PathX, PathY}, ch \in Chans :
        Return(FCall("busybox", "move", src, dst, RetNone, TRUE), ch,
               BbMove(src, dst, fs, env, ch, bb))

InitMove ==
    /\ ChannelIdle
    /\ fs \in MoveFs
    /\ env = AllUtils
    /\ bb = NewBusyBox
    /\ FilesIdle

NextMove ==
    \/ PyMoveCall
    \/ ShellMoveCall
    \/ FileCallerContinues

SpecMove == InitMove /\ [][NextMove]_vars

\* ------------------------------------------------ orchestration (main.py)
\* truth value of what a backend method returned, as 'or' takes it
Truthy(ret) == (ret.tag = "bool" /\ ret.bool) \/ (ret.tag = "str" /\ ret.text # <<>>)

\* an orchestration method before it has called a backend
Started(f, b) == Did(RetNone, f, <<>>, {}, b)

\* the method so far (prev) has called one more backend, bk, which did d
After(prev, bk, d) ==
    Did(d.ret, d.fs, prev.sent \o d.sent, prev.log \cup d.log \cup {bk}, d.bb)

\* the backend method an orchestration method calls for op
OpOn(bk, op, p, arg, f, e, ch, b) ==
    CASE op = "exists" -> ExistsOn(bk, p, f, e, ch, b)
      [] op = "is_dir" -> IsDirOn(bk, p, f, e, ch, b)
      [] op = "write" -> WriteOn(bk, p, arg, f, e, ch, b)
      [] op = "remove" -> RemoveOn(bk, p, FALSE, f, e, ch, b)
      [] OTHER -> ChecksumOn(bk, p, arg, f, e, ch, b)

Consult(prev, bk, op, p, arg, e, ch) ==
    After(prev, bk, OpOn(bk, op, p, arg, prev.fs, e, ch, prev.bb))

\* '... or self.adb.op(...)'
OrAdb(first, op, p, arg, e, ch) ==
    IF Truthy(first.ret) THEN first ELSE Consult(first, "adb", op, p, arg, e, ch)

\* 'self.fm.op(...) or self.adb.op(...)' of check_storage, download_assets and
\* setup_busybox
FmOrAdb(op, p, arg, f, e, ch, b) ==
    OrAdb(Consult(Started(f, b), "pyf", op, p, arg, e, ch), op, p, arg, e, ch)

\* the busybox backend is asked whatever came before
BusyboxAlways(first, p, hash_type, e, ch) ==
    Consult(first, "busybox", "checksum", p, hash_type, e, ch)

\* '... or self.busybox.checksum(file_path, hash_type)'
OrBusybox(first, p, hash_type, e, ch) ==
    IF Truthy(first.ret) THEN first
    ELSE Consult(first, "busybox", "checksum", p, hash_type, e, ch)

\* 'if actual_hash is None: actual_hash = self.adb.checksum(...)'
IfNoneAdb(d, p, hash_type, e, ch) ==
    IF d.ret = RetNone THEN Consult(d, "adb", "checksum", p, hash_type, e, ch) ELSE d

\* 'if actual_hash is None: return False', 'return actual_hash == expected_hash'
Compared(d, expected_hash) ==
    Did(RetBool(d.ret # RetNone /\ d.ret = expected_hash), d.fs, d.sent, d.log, d.bb)

\* AndroSH.checksum(file_path, expected_hash, hash_type)
AndroChecksum(file_path, expected_hash, hash_type, f, e, ch, b) ==
    Compared(IfNoneAdb(OrBusybox(Consult(Started(f, b), "pyf", "checksum", file_path,
                                         hash_type, e, ch),
                                 file_path, hash_type, e, ch),
                       file_path, hash_type, e, ch),
             expected_hash)

\* the operations main.py performs as 'fm ... or adb ...'
FallbackOps == {"exists", "is_dir", "write", "remove", "checksum"}

\* second argument of such a call: the content written, the default hash_type
FallbackArg(op) ==
    IF op = "write" THEN <<"a">> ELSE IF op = "checksum" THEN Word.sha512 ELSE <<>>

\* the paths the orchestration is followed on: a usable one and a blank one
OrchPaths == {PathX, <<" ">>}

FallbackCall ==
    \E op \in FallbackOps, p \in OrchPaths, ch \in Chans :
        Return(FCall("androsh", op, p, FallbackArg(op), RetNone, FALSE), ch,
               FmOrAdb(op, p, FallbackArg(op), fs, env, ch, bb))

\* the digests a caller of AndroSH.checksum can expect: what a backend gives
\* for the file in this state, or a digest no file has
ExpectedHashes(p, hash_type) ==
    {d \in {ChecksumOn(bk, p, hash_type, fs, env, "ok", bb).ret : bk \in Backends} :
        d # RetNone} \cup {WrongDigest}

AndroChecksumCall ==
    \E p \in OrchPaths, ch \in Chans, hash_type \in HashTypes :
        \E expected \in ExpectedHashes(p, hash_type) :
            Return(FCall("androsh", "verify", p, hash_type, expected, FALSE), ch,
                   AndroChecksum(p, expected, hash_type, fs, env, ch, bb))

NextOrch ==
    \/ FallbackCall
    \/ AndroChecksumCall
    \/ FileCallerContinues

SpecOrch == InitFiles /\ [][NextOrch]_vars

\* ------------------------------------------- capabilities of BusyBoxManager
\* utilities of a device whose binary has every applet the operations need
CapsUtils == AllUtils \cup {Word.chown, Word.ln, Word.readlink, Word.base64}

CapsEnvs == {CapsUtils, {Word.md5sum}}

\* devices with and without the binary, with and without a file at PathX
CapsFs ==
    {Fresh, OnlyCwd, Put(Fresh, PathX, FileNode(<<"a", "\n">>)),
     Put(OnlyCwd, PathX, FileNode(<<"a", "\n">>))}

Owner == <<"u">>

BusyBoxCall(op, p, arg) == FCall("busybox", op, p, arg, RetNone, FALSE)

IsAvailableCall ==
    \E ch \in Chans :
        Return(BusyBoxCall("is_available", <<>>, <<>>), ch, IsAvailable(fs, env, ch, bb))

\* BusyBoxManager.get_applets as a call
Applets(applets, f) ==
    Did(RetList(applets.list), f, applets.sent, {}, applets.bb)

GetAppletsCall ==
    \E ch \in Chans :
        Return(BusyBoxCall("get_applets", <<>>, <<>>), ch,
               Applets(GetApplets(fs, env, ch, bb), fs))

HasAppletCall ==
    \E ch \in Chans, applet \in {Word.chown, Word.md5sum} :
        Return(BusyBoxCall("has_applet", <<>>, applet), ch,
               HasApplet(applet, GetApplets(fs, env, ch, bb), fs))

ChownCall ==
    \E ch \in Chans :
        Return(BusyBoxCall("chown", PathX, Owner), ch,
               BbChown(PathX, Owner, fs, env, ch, bb))

\* create_symlink(target, link_path): a link at PathY to PathX
CreateSymlinkCall ==
    \E ch \in Chans :
        Return(BusyBoxCall("create_symlink", PathY, PathX), ch,
               BbCreateSymlink(PathX, PathY, fs, env, ch, bb))

ReadSymlinkCall ==
    \E ch \in Chans, p \in {PathX, PathY} :
        Return(BusyBoxCall("read_symlink", p, <<>>), ch,
               BbReadSymlink(p, fs, env, ch, bb))

ReadBytesCall ==
    \E ch \in Chans :
        Return(BusyBoxCall("read_bytes", PathX, <<>>), ch,
               BbReadBytes(PathX, fs, env, ch, bb))

\* BusyBoxManager.checksum(PathX, hash_type)
HashCall ==
    \E ch \in Chans, hash_type \in HashTypes :
        Return(BusyBoxCall("checksum", PathX, hash_type), ch,
               BbChecksum(PathX, hash_type, fs, env, ch, bb))

\* between two calls somebody installs the binary on the device or removes it
BinaryChanges ==
    /\ fcall = NoFCall
    /\ fs' = IF Kind(fs, Cmd.busybox) = "file" THEN Del(fs, Cmd.busybox)
                                               ELSE Installed(fs)
    /\ fsBefore' = fs'
    /\ UNCHANGED << fcall, fret, sent, chan, flog, bb, env, channelVars >>

\* AndroSH._execute_setup, its first step: the root directory is made through
\* the busybox backend if that backend does not find it
ExecuteSetupRoot(root, f, e, ch, b) ==
    LET found == After(Started(f, b), "busybox", BbExists(root, f, e, ch, b))
    IN  IF Truthy(found.ret) THEN found
        ELSE After(found, "busybox", BbMkdir(root, TRUE, found.fs, e, ch, found.bb))

ExecuteSetupCall ==
    \E ch \in Chans :
        Return(FCall("androsh", "_execute_setup", PathX, <<>>, RetNone, FALSE), ch,
               ExecuteSetupRoot(PathX, fs, env, ch, bb))

InitCaps ==
    /\ ChannelIdle
    /\ fs \in CapsFs
    /\ env \in CapsEnvs
    /\ bb = NewBusyBox
    /\ FilesIdle

NextCaps ==
    \/ IsAvailableCall
    \/ GetAppletsCall
    \/ HasAppletCall
    \/ ChownCall
    \/ CreateSymlinkCall
    \/ ReadSymlinkCall
    \/ ReadBytesCall
    \/ HashCall
    \/ ExecuteSetupCall
    \/ BinaryChanges
    \/ FileCallerContinues

SpecCaps == InitCaps /\ [][NextCaps]_vars

\* ------------------------------------------------ TermuxDistribution.download
\* the depth of calls the interpreter allows before it raises RecursionError
RecursionLimit == 3

\* file_path = f"{self.resources}/{file_name}"
FileName == <<"x">>

FilePath == <<"/">> \o FileName

\* what the remote serves on one fetch: the published tarball ("g"), other
\* content ("b"), or a transfer that breaks off after the file was opened ("c")
Servings == {"g", "b", "c"}

Published == <<"a">>

Body(serving) ==
    IF serving = "g" THEN Published ELSE IF serving = "b" THEN <<" ">> ELSE <<>>

\* tarball_info.get('sha256'): the digest of the published tarball, or None
ExpectedHashOf(content) == RetText(Digest(Word.sha256sum, content))

\* Downloader.download_file: the body is written to destination, which is
\* returned; a transfer that breaks off leaves what was written and raises
DownloadFile(destination, serving, f, b) ==
    Did(IF serving = "c" THEN RetRaised ELSE RetText(destination),
        Put(f, destination, FileNode(Body(serving))), <<destination>>, {}, b)

\* Distribution._verify_checksum
VerifyChecksum(file_path, expected_hash, hash_type, f, b) ==
    PyChecksum(file_path, hash_type, f, b).ret = expected_hash

\* download without the retry: a failed verification removes the file and
\* the method returns
DownloadOnce(file_name, expected_hash, served, f, b, depth) ==
    LET file_path == <<"/">> \o file_name
        got == DownloadFile(file_path, served[depth], f, b)
    IN  IF Truthy(PyExists(file_path, f, b).ret)
        THEN Did(RetText(file_name), f, <<>>, {"already downloaded"}, b)
        ELSE IF got.ret = RetRaised THEN got
        ELSE IF expected_hash = RetNone
             \/ VerifyChecksum(file_path, expected_hash, Word.sha256, got.fs, b)
        THEN Did(RetText(file_name), got.fs, got.sent, {}, b)
        ELSE Did(RetText(file_name), PyRemove(file_path, got.fs, b).fs, got.sent,
                 {"verification failed"}, b)

\* TermuxDistribution.download, the call at the given depth of the stack, for
\* a supported architecture and a check_storage that passes; served[depth] is
\* what the remote serves to this call.  sent lists the fetches made
RECURSIVE Download(_, _, _, _, _, _)
Download(file_name, expected_hash, served, f, b, depth) ==
    LET file_path == <<"/">> \o file_name
        got == DownloadFile(file_path, served[depth], f, b)
        retried == Download(file_name, expected_hash, served,
                            PyRemove(file_path, got.fs, b).fs, b, depth + 1)
    IN  IF depth > RecursionLimit
        THEN Did(RetRaised, f, <<>>, {"RecursionError"}, b)
        ELSE IF Truthy(PyExists(file_path, f, b).ret)
        THEN Did(RetText(file_name), f, <<>>, {"already downloaded"}, b)
        ELSE IF got.ret = RetRaised THEN got
        ELSE IF expected_hash = RetNone
             \/ VerifyChecksum(file_path, expected_hash, Word.sha256, got.fs, b)
        THEN Did(RetText(file_name), got.fs, got.sent, {}, b)
        ELSE \* the retry's result is dropped; what it raises goes through
             \* 'except Exception: raise'
             Did(IF retried.ret = RetRaised THEN RetRaised ELSE RetText(file_name),
                 retried.fs, got.sent \o retried.sent,
                 retried.log \cup {"verification failed"}, b)

\* the remote's answers to the fetches of one call of download
ServedSeqs == [1..RecursionLimit -> Servings]

DownloadCall ==
    \E served \in ServedSeqs, expected \in {ExpectedHashOf(Published), RetNone} :
        Return(FCall("distro", "download", FilePath, served, expected, FALSE), "ok",
               Download(FileName, expected, served, fs, bb, 1))

\* the user clears the resources directory of the file
ResourceRemoved ==
    /\ fcall = NoFCall
    /\ Kind(fs, FilePath) # "absent"
    /\ fs' = Del(fs, FilePath)
    /\ fsBefore' = fs'
    /\ UNCHANGED << fcall, fret, sent, chan, flog, bb, env, channelVars >>

InitDownload ==
    /\ ChannelIdle
    /\ fs \in {OnlyCwd} \cup {Put(OnlyCwd, FilePath, FileNode(c)) : c \in {Published, <<" ">>}}
    /\ env = AllUtils
    /\ bb = NewBusyBox
    /\ FilesIdle

NextDownload ==
    \/ DownloadCall
    \/ ResourceRemoved
    \/ FileCallerContinues

SpecDownload == InitDownload /\ [][NextDownload]_vars

\* ---------------------------------------------------- AndroSH.setup_busybox
\* busybox_dir, the directory of busybox_path
BusyboxDir == SubSeq(Cmd.busybox, 1, Len(Cmd.busybox) - Len(<<"/", "b", "u", "s", "y", "b", "o", "x">>))

\* local_busybox_path = f"{self.resources}/busybox"
LocalBusybox == <<"/", "b">>

Mode755 == <<"7", "5", "5">>

\* BUSYBOX_CHECKSUMS[arch]: the sha512 digest of the published binary
ExpectedBusybox == RetText(Digest(Word.sha512sum, Published))

\* setup_busybox under way: what it has done so far (did) and the statement
\* it is at, "done" once it has returned or raised
Step(did, at) == [did |-> did, at |-> at]

\* the call of a backend at a statement of setup_busybox has done did: a
\* truthy result leads to the statement yes, another one to no
Branch(did, yes, no) == Step(did, IF Truthy(did.ret) THEN yes ELSE no)

\* the next call of a backend by setup_busybox
Calls(step, bk, d) == After(step.did, bk, d)

\* 'if not self.adb.mkdir(self.busybox_dir, parents=True): return False'
SetupMade(f, e, ch, b) ==
    Branch(After(Started(f, b), "adb", AdbMkdir(BusyboxDir, TRUE, f, e, ch, b)),
           "binary", "done")

\* 'if self.adb.exists(self.busybox_path)'
SetupExisting(step, e, ch) ==
    IF step.at # "binary" THEN step
    ELSE Branch(Calls(step, "adb",
                      AdbExists(Cmd.busybox, step.did.fs, e, ch, step.did.bb)),
                "compare", "local")

\* '... == expected_hash: return True'
Matched(digest) ==
    IF digest.ret = ExpectedBusybox
    THEN Step(Did(RetBool(TRUE), digest.fs, digest.sent,
                  digest.log \cup {"BusyBox already installed"}, digest.bb),
              "done")
    ELSE Step(digest, "local")

\* 'if self.adb.checksum(self.busybox_path) == expected_hash: return True'
SetupCompared(step, e, ch) ==
    IF step.at # "compare" THEN step
    ELSE Matched(Calls(step, "adb",
                       AdbChecksum(Cmd.busybox, Word.sha512, step.did.fs, e, ch,
                                   step.did.bb)))

\* 'if not self.adb.exists(local_busybox_path)'
SetupLooked(step, e, ch) ==
    IF step.at # "local" THEN step
    ELSE Branch(Calls(step, "adb",
                      AdbExists(LocalBusybox, step.did.fs, e, ch, step.did.bb)),
                "hash", "fetch")

\* what download_file raises ends setup_busybox
Unless_Raised(got, next) == Step(got, IF got.ret = RetRaised THEN "done" ELSE next)

\* 'self.downloader.download_file(busybox_url, local_busybox_path)' at
\* statement at
SetupFetched(step, at, serving, next) ==
    IF step.at # at THEN step
    ELSE Unless_Raised(Calls(step, "downloader",
                             DownloadFile(LocalBusybox, serving, step.did.fs,
                                          step.did.bb)),
                       next)

\* 'if actual_hash != expected_hash': with force, or the answer y, the local
\* file is replaced; with another answer it is used as it is
Mismatch(hashed, replace) ==
    Step(hashed, IF hashed.ret # ExpectedBusybox /\ replace THEN "remove" ELSE "copy")

\* 'actual_hash = self.fm.checksum(...) or self.adb.checksum(...)'
SetupHashed(step, replace, e, ch) ==
    IF step.at # "hash" THEN step
    ELSE Mismatch(OrAdb(Consult(step.did, "pyf", "checksum", LocalBusybox,
                                Word.sha512, e, ch),
                        "checksum", LocalBusybox, Word.sha512, e, ch),
                  replace)

\* 'self.fm.remove(local_busybox_path) or self.adb.remove(local_busybox_path)'
SetupRemoved(step, e, ch) ==
    IF step.at # "remove" THEN step
    ELSE Step(OrAdb(Consult(step.did, "pyf", "remove", LocalBusybox, <<>>, e, ch),
                    "remove", LocalBusybox, <<>>, e, ch),
              "refetch")

\* 'if not self.adb.copy(local_busybox_path, self.busybox_path): return False'
SetupCopied(step, e, ch) ==
    IF step.at # "copy" THEN step
    ELSE Branch(Calls(step, "adb",
                      AdbCopy(LocalBusybox, Cmd.busybox, step.did.fs, e, ch,
                              step.did.bb)),
                "chmod", "done")

\* 'if not self.adb.chmod(self.busybox_path, "755"): return False'
SetupChmodded(step, e, ch) ==
    IF step.at # "chmod" THEN step
    ELSE Branch(Calls(step, "adb",
                      AdbChmod(Cmd.busybox, Mode755, step.did.fs, e, ch, step.did.bb)),
                "test", "done")

\* 'if self.busybox.is_available(): return True else: return False'
SetupTested(step, e, ch) ==
    IF step.at # "test" THEN step
    ELSE Step(Calls(step, "busybox", IsAvailable(step.did.fs, e, ch, step.did.bb)),
              "done")

\* AndroSH.setup_busybox for a known architecture, statement by statement.
\* replace: args.force is set or the user answers y; served: what the remote
\* serves to the first and to the second fetch
SetupBusyboxCall ==
    /\ fcall = NoFCall
    /\ \E ch \in Chans, replace \in BOOLEAN, served \in [1..2 -> Servings] :
           \E made \in {SetupMade(fs, env, ch, bb)} :
           \E existing \in {SetupExisting(made, env, ch)} :
           \E compared \in {SetupCompared(existing, env, ch)} :
           \E looked \in {SetupLooked(compared, env, ch)} :
           \E fetched \in {SetupFetched(looked, "fetch", served[1], "hash")} :
           \E hashed \in {SetupHashed(fetched, replace, env, ch)} :
           \E removed \in {SetupRemoved(hashed, env, ch)} :
           \E refetched \in {SetupFetched(removed, "refetch", served[2], "copy")} :
           \E copied \in {SetupCopied(refetched, env, ch)} :
           \E chmodded \in {SetupChmodded(copied, env, ch)} :
           \E tested \in {SetupTested(chmodded, env, ch)} :
               /\ tested.at = "done"
               /\ Return(FCall("androsh", "setup_busybox", Cmd.busybox, served,
                               ExpectedBusybox, replace),
                         ch, tested.did)

\* devices without a binary, with the published one and with another one,
\* and a resources directory without, with the published and with another
\* local copy
SetupFs ==
    {IF c = <<"-">> THEN f ELSE Put(f, LocalBusybox, FileNode(c)) :
        f \in {OnlyCwd, Fresh, Put(OnlyCwd, Cmd.busybox, FileNode(Published))},
        c \in {<<"-">>, Published, <<" ">>}}

InitSetup ==
    /\ ChannelIdle
    /\ fs \in SetupFs
    /\ env \in {AllUtils, AllUtils \cup {Word.sha512sum}}
    /\ bb = NewBusyBox
    /\ FilesIdle

NextSetup ==
    \/ SetupBusyboxCall
    \/ FileCallerContinues

SpecSetup == InitSetup /\ [][NextSetup]_vars

\* ----------------------------------------------------------------- claims
\* a Rish.run call has returned a result object
RunReturned == call.op = "run" /\ outcome.kind = "returned"

\* the text Rish.run hands back, whichever field holds it
CleanOutput == IF outcome.result.returncode = 0 THEN outcome.result.stdout
               ELSE outcome.result.stderr

\* C1: every result Rish.run returns has an empty stderr when its return code
\* is 0 and an empty stdout when its return code is not 0.
C1_Routing ==
    RunReturned =>
        /\ (outcome.result.returncode = 0 => outcome.result.stderr = <<>>)
        /\ (outcome.result.returncode # 0 => outcome.result.stdout = <<>>)

C1_Witness ==
    /\ RunReturned
    /\ child = "completed"
    /\ outcome.result.returncode = 7
    /\ outcome.result.stderr # <<>>

\* C2: when the token is nowhere in the child's captured text, Rish.run
\* reports a failure: a non-zero return code and a description in stderr.
C2_NoTokenIsFailure ==
    (RunReturned /\ ~Contains(captured, Token)) =>
        /\ outcome.result.returncode # 0
        /\ outcome.result.stderr # <<>>

\* C3: a command that ends with status N and writes no token is reported with
\* return code N; for N = 0 its output is in stdout and stderr is empty, for
\* N # 0 stdout is empty.
C3_StatusAndOutput ==
    (RunReturned /\ child = "completed" /\ ~Contains(call.cmd.out, Token)) =>
        /\ outcome.result.returncode = call.cmd.status
        /\ (call.cmd.status = 0 =>
               /\ Contains(outcome.result.stdout, RStrip(call.cmd.out))
               /\ outcome.result.stderr = <<>>)
        /\ (call.cmd.status # 0 => outcome.result.stdout = <<>>)

\* C4: a command whose own output holds the token text is not misparsed: the
\* return code is the status the wrapper appended and the output is not cut
\* at the look-alike.
C4_LookAlikeNotMisparsed ==
    (RunReturned /\ child = "completed" /\ ~call.cmd.exits
        /\ Contains(call.cmd.out, Token)) =>
        /\ outcome.result.returncode = call.cmd.status
        /\ Contains(CleanOutput, RStrip(call.cmd.out))

\* the longest run of decimal digits that starts s
RECURSIVE LeadingDigits(_)
LeadingDigits(s) ==
    IF s = <<>> \/ ~IsDigit(s[1]) THEN <<>>
    ELSE <<s[1]>> \o LeadingDigits(Tail(s))

\* the captured text before the token, and after it
BeforeToken == SplitOnce(captured, Token)[1]

AfterToken == SplitOnce(captured, Token)[2]

\* the text that follows the exit-code digits
TrailingText ==
    SubSeq(AfterToken, Len(LeadingDigits(AfterToken)) + 1, Len(AfterToken))

\* digits follow the token and further text follows the digits
DigitsThenText ==
    /\ RunReturned
    /\ Contains(captured, Token)
    /\ LeadingDigits(AfterToken) # <<>>
    /\ Strip(TrailingText) # <<>>

\* C5: when text follows the exit-code digits, with or without whitespace in
\* between, the return code is the value of the digits and the text is kept,
\* after the pre-token output and a line break.
C5_TrailingTextKept ==
    DigitsThenText =>
        /\ outcome.result.returncode = DigitsValue(LeadingDigits(AfterToken))
        /\ CleanOutput =
             IF RStrip(BeforeToken) # <<>>
             THEN RStrip(BeforeToken) \o <<"\n">> \o Strip(TrailingText)
             ELSE Strip(TrailingText)

\* C6: Rish.run never raises: a call that ended without a child that ran to
\* an end of its own (staging or spawn error, timeout) ended with a returned
\* result of return code 1, empty stdout and a description in stderr.
C6_RunNeverRaises ==
    (call.op = "run" /\ pc = "done") =>
        /\ outcome.kind = "returned"
        /\ (child \in {"none", "killed"} =>
               /\ outcome.result.returncode = 1
               /\ outcome.result.stdout = <<>>
               /\ outcome.result.stderr # <<>>)

\* C7: a Rish.run call given a timeout never blocks for good on its child:
\* expiry is possible whenever it waits, and a call ended by expiry has killed
\* the child and returned a result with a non-zero return code.
C7_TimeoutEndsCall ==
    (call.op = "run" /\ call.timeout # "None") =>
        /\ (pc = "waiting" => ENABLED TimeoutExpires)
        /\ (pc = "done" /\ child = "killed" =>
               /\ outcome.kind = "returned"
               /\ outcome.result.returncode # 0)

C9_StagedPayloadValid ==
    pc \in {"spawn", "waiting"} =>
        /\ cache.exists
        /\ Checksum(cache) # "None"
        /\ Checksum(cache) = Checksum(DexAsset(assets, resourcesDir, resourcesFile))
        /\ "w" \notin cache.mode

C9_Witness ==
    /\ pc = "spawn"
    /\ call.op = "drun"
    /\ cacheBefore.exists
    /\ "w" \notin cacheBefore.mode
    /\ cacheBefore.content # cache.content

\* C10: a cached payload that exists with the digest of the source payload is
\* neither deleted nor copied again by Rish.dex, and its content stays.
C10_MatchingCacheUntouched ==
    (cacheBefore.exists
        /\ Checksum(cacheBefore) = Checksum(DexAsset(assets, resourcesDir, resourcesFile))) =>
        /\ \A i \in 1..Len(dexOps) : dexOps[i] \notin {"remove", "copy"}
        /\ cache.exists
        /\ cache.content = cacheBefore.content

C10_Witness ==
    /\ pc = "spawn"
    /\ cacheBefore.exists
    /\ "w" \in cacheBefore.mode
    /\ Checksum(cacheBefore) = Checksum(DexAsset(assets, resourcesDir, resourcesFile))
    /\ dexOps = <<"chmod">>

\* Rish.dex raised inside the call in flight: only then is the cached payload
\* missing while a call is in flight
StagingFailed == call.op # "none" /\ ~cache.exists

OpPath == IF fcall.backend = "pyf" THEN PyPath(fcall.path) ELSE fcall.path

\* a shell backend's command was carried out, or the backend needs no channel
Carried_Out == chan = "ok"

\* C12: on all three backends exists, is_file and is_dir of an empty or
\* whitespace-only path return False, raise nothing and dispatch no command
C12_BlankPathIsFalse ==
    (fcall.op \in {"exists", "is_file", "is_dir"} /\ Blank(fcall.path) /\ Carried_Out)
        => (fret = RetBool(FALSE) /\ sent = <<>>)

\* C13: after mkdir(P, parents=True) of a non-empty path P has returned
\* success, on any backend, P is a directory
C13_MkdirSuccessIsDirectory ==
    (fcall.op = "mkdir" /\ fcall.path # <<>> /\ Carried_Out /\ fret = RetBool(TRUE))
        => Kind(fs, OpPath) = "dir"

C15_WriteReadRoundTrip ==
    (fcall.op = "write_read" /\ fcall.backend \in {"adb", "busybox"} /\ Carried_Out
        /\ Kind(fsBefore, fcall.path) # "dir")
        => fret = RetText(fcall.arg)

\* C16: on every backend read of an existing empty file returns the empty
\* text and read of a missing path returns None
C16_EmptyFileIsNotMissing ==
    (fcall.op = "read" /\ fcall.path = PathX /\ Carried_Out)
        => /\ fsBefore = Put(Fresh, PathX, FileNode(<<>>)) => fret = RetText(<<>>)
           /\ Kind(fsBefore, PathX) = "absent" => fret = RetNone

\* the digest of the file the last operation named, by the utility of the
\* algorithm asked for
DigestOf(util) == RetText(Digest(util, fsBefore[OpPath].content))

\* C18: on both shell backends checksum(P, a) of a file P, where the utility
\* of a is unavailable and md5sum is there, returns the md5 digest and
\* records the fallback in a log entry
C18_FallsBackToMd5 ==
    (fcall.op = "checksum" /\ fcall.backend \in {"adb", "busybox"} /\ Carried_Out
        /\ fcall.arg = Word.sha256 /\ Word.sha256sum \notin env /\ Word.md5sum \in env
        /\ Kind(fsBefore, fcall.path) = "file")
        => (fret = DigestOf(Word.md5sum) /\ "type=md5 (fallback)" \in flog)

C20_InfoOneShape ==
    (fcall.op = "get_info" /\ Carried_Out)
        => (fret = RetNone \/ fret = RetDict(StatKeys))

\* the words of a command line as the device's shell takes them, each with
\* whether all of it was taken literally; of sh -c '<script>', the words of
\* the script
DropPrefix(words) ==
    IF words # <<>> /\ words[1].text = Cmd.busybox THEN Tail(words) ELSE words

ScriptWords(words) ==
    IF Len(words) = 3 /\ words[1].text = Word.sh /\ words[2].text = DashC
    THEN ShellWords(words[3].text) ELSE words

HasWord(words, p) == \E i \in 1..Len(words) : words[i] = [text |-> p, literal |-> TRUE]

ArrivesWhole(command, p) ==
    HasWord(ScriptWords(DropPrefix(InnerWords(ShellWords(Repr(command))))), p)

\* the path as the backend puts it into the command
PathSent == IF fcall.backend = "adb" THEN Strip(fcall.path) ELSE fcall.path

\* C17: in every command a shell backend dispatches, each path argument is
\* one word that the device's shell takes literally, whatever characters the
\* path holds, the source of a wildcard move included
C17_PathsArriveWhole ==
    (fcall.op \in {"exists", "move"} /\ fcall.backend \in {"adb", "busybox"})
        => \A i \in 1..Len(sent) : ArrivesWhole(sent[i], PathSent)

\* C21: no operation of PyFManager raises an exception to its caller
C21_PyfNeverRaises == fcall.backend = "pyf" => fret.tag # "raised"

\* C29: for a non-blank path, is_file and is_dir on the shell backends return
\* what PyFManager returns: is_file is true iff the path is a regular file,
\* is_dir is true iff it is a directory
C29_KindQueriesAgree ==
    (fcall.op \in {"is_file", "is_dir"} /\ fcall.backend \in {"adb", "busybox"}
        /\ ~Blank(fcall.path) /\ Carried_Out)
        => /\ fcall.op = "is_file" => fret = PyIsFile(fcall.path, fsBefore, bb).ret
           /\ fcall.op = "is_dir" => fret = PyIsDir(fcall.path, fsBefore, bb).ret

\* exit status of the i-th command the last operation dispatched
StatusOf(i) == RunCommand(sent[i], fsBefore, env, chan).result.returncode

\* C30: mkdir and write_text of BusyBoxManager return True only if the channel
\* carried the command and the command exited with status 0
C30_TrueOnlyOnStatusZero ==
    (fcall.backend = "busybox" /\ fcall.op \in {"mkdir", "write"}
        /\ fret = RetBool(TRUE))
        => (Carried_Out /\ Len(sent) = 1 /\ StatusOf(1) = 0)
\* the command get_applets dispatches for the listing
Listing == Cmd.busybox \o Cmd.list

\* C22: on an instance as __init__ leaves it, an is_available call that
\* reaches the device dispatches the self-test probe and answers by what the
\* probe finds: true if the binary is there, false if it is missing
C22_FirstCallProbes ==
    [][(bb = NewBusyBox /\ fcall'.op = "is_available" /\ chan' = "ok")
          => /\ sent' # <<>>
             /\ fret' = RetBool(Kind(fs, Cmd.busybox) = "file")]_vars

\* C23: the availability state of an instance that is not UNPROBED never
\* changes, whatever is called and whatever happens to the binary, and an
\* is_available call on it dispatches nothing
C23_AvailabilityNeverChanges ==
    [][bb.available # "None"
          => /\ bb'.available = bb.available
             /\ fcall'.op = "is_available"
                   => (sent' = <<>> /\ fs' = fs /\ fret' = RetBool(bb.available = "True"))]_vars

\* is_available has answered from the memo although the binary is gone and
\* other operations have run in between
C23_Witness ==
    /\ fcall.op = "is_available"
    /\ bb.applets.known
    /\ Kind(fs, Cmd.busybox) = "absent"
    /\ fret = RetBool(TRUE)
    /\ sent = <<>>

\* C24: once the inventory is known it never changes, no operation dispatches
\* the listing command again, and get_applets and has_applet answer from it
\* without dispatching anything
C24_InventoryListedOnce ==
    [][bb.applets.known
          => /\ bb'.applets = bb.applets
             /\ \A i \in 1..Len(sent') : sent'[i] # Listing
             /\ fcall'.op \in {"get_applets", "has_applet"} => sent' = <<>>
             /\ fcall'.op = "get_applets" => fret' = RetList(bb.applets.list)
             /\ fcall'.op = "has_applet"
                   => fret' = RetBool(fcall'.arg \in bb.applets.list)]_vars

\* has_applet has answered from a memoised inventory that holds applets
C24_Witness ==
    /\ fcall.op = "has_applet"
    /\ bb.applets.known
    /\ Word.md5sum \in bb.applets.list
    /\ fret = RetBool(fcall.arg \in bb.applets.list)
    /\ sent = <<>>

\* the applet an operation of BusyBoxManager needs
Needed(c) ==
    CASE c.op = "chown" -> Word.chown
      [] c.op = "create_symlink" -> Word.ln
      [] c.op = "read_symlink" -> Word.readlink
      [] c.op = "read_bytes" -> Word.base64
      [] OTHER -> Lower(c.arg) \o <<"s", "u", "m">>

CapabilityOps == {"chown", "create_symlink", "read_symlink", "read_bytes", "checksum"}

\* C25: chown, create_symlink, read_symlink, read_bytes and checksum of
\* BusyBoxManager, when the applet they need is not in the inventory, return
\* false or None without raising, dispatch nothing but the listing that
\* has_applet may need, and leave the file system alone
C25_AbsentAppletFailsAtOnce ==
    (fcall.backend = "busybox" /\ fcall.op \in CapabilityOps
        /\ Needed(fcall) \notin bb.applets.list)
        => /\ fret = (IF fcall.op \in {"chown", "create_symlink"} THEN RetBool(FALSE)
                                                                  ELSE RetNone)
           /\ \A i \in 1..Len(sent) : sent[i] = Listing
           /\ fs = fsBefore

\* chown on a device with the binary but without the chown applet: the
\* listing was obtained, and chown returned false after it
C25_Witness ==
    /\ fcall.op = "chown"
    /\ chan = "ok"
    /\ Kind(fsBefore, Cmd.busybox) = "file"
    /\ bb.applets.list = {Word.md5sum}
    /\ fret = RetBool(FALSE)
    /\ sent = <<Listing>>
\* C28: a move that returns false has left the file system as it was before
\* the call
C28_FailedMoveChangesNothing ==
    (fcall.op = "move" /\ fret = RetBool(FALSE)) => fs = fsBefore
\* the backends the last orchestration call has called
Consulted == flog \cap Backends

\* the digest the backends of AndroSH.checksum give, each asked on its own in
\* the state before the call
DigestOn(bk) == ChecksumOn(bk, fcall'.path, fcall'.arg, fs, env, chan', bb).ret

\* the first of them that is a digest, or None
FirstDigest ==
    IF DigestOn("pyf") # RetNone THEN DigestOn("pyf")
    ELSE IF DigestOn("busybox") # RetNone THEN DigestOn("busybox")
    ELSE DigestOn("adb")

\* C26: AndroSH.checksum asks Direct, then AugmentedShell, then RawShell, a
\* later one only if every earlier one gave no digest; it compares the first
\* digest it got with the expected hash, and returns false when there is none
C26_FirstDigestWins ==
    [][(fcall'.backend = "androsh" /\ fcall'.op = "verify")
          => /\ Consulted' = IF DigestOn("pyf") # RetNone THEN {"pyf"}
                             ELSE IF DigestOn("busybox") # RetNone
                             THEN {"pyf", "busybox"}
                             ELSE {"pyf", "busybox", "adb"}
             /\ fret' = RetBool(FirstDigest # RetNone /\ FirstDigest = fcall'.expected)
             /\ fs' = fs]_vars

\* AugmentedShell gave the digest that was compared, after Direct gave none
\* and without RawShell being asked, although RawShell gives no digest here
C26_Witness ==
    /\ fcall.backend = "androsh" /\ fcall.op = "verify"
    /\ Consulted = {"pyf", "busybox"}
    /\ fret = RetBool(TRUE)
    /\ AdbChecksum(fcall.path, fcall.arg, fsBefore, env, chan, bb).ret = RetNone

\* C27: a fallback operation of main.py that goes on to RawShell has
\* attempted AugmentedShell before
C27_AugmentedBeforeRaw ==
    (fcall.backend = "androsh" /\ fcall.op \in FallbackOps /\ "adb" \in Consulted)
        => "busybox" \in Consulted
\* the token is in the captured text and no exit code can be read behind it:
\* nothing but whitespace follows, or the word that follows is no integer
NoCodeAfterToken ==
    /\ RunReturned
    /\ Contains(captured, Token)
    /\ (Strip(AfterToken) = <<>> \/ ~IsInt(FirstWord(Strip(AfterToken))))

\* C32: when the token is in the output and no exit code can be read behind
\* it, Rish.run returns a non-zero return code
C32_DecodeFailureIsNonZero ==
    NoCodeAfterToken => outcome.result.returncode # 0
\* C34: exists, is_file and is_dir of ADBFileManager return false whenever the
\* channel failed to carry the command out
C34_TransportFailureIsFalse ==
    (fcall.backend = "adb" /\ fcall.op \in {"exists", "is_file", "is_dir"}
        /\ chan # "ok")
        => fret = RetBool(FALSE)

\* C35: ADBFileManager.mkdir without parents of a path that already exists
\* returns false
C35_MkdirExistingIsFalse ==
    (fcall.backend = "adb" /\ fcall.op = "mkdir" /\ ~fcall.flag /\ Carried_Out
        /\ ~Blank(fcall.path) /\ Kind(fsBefore, Strip(fcall.path)) # "absent")
        => fret = RetBool(FALSE)
\* C36: a cache that held a payload before Rish.dex ran holds one afterwards
C36_CachedPayloadKept == cacheBefore.exists => cache.exists
\* s begins with t
StartsWith(s, t) == Len(s) >= Len(t) /\ SubSeq(s, 1, Len(t)) = t

\* C31: while the binary is not on the device, so that no probe can have
\* confirmed it, the commands BusyBoxManager dispatches for the exists and
\* mkdir of _execute_setup do not begin with the binary's path
C31_UnconfirmedBinaryNotPrefixed ==
    (fcall.op = "_execute_setup" /\ Kind(fsBefore, Cmd.busybox) # "file")
        => \A i \in DOMAIN sent : ~StartsWith(sent[i], Cmd.busybox \o <<" ">>)
\* the remote serves content that does not match the expected hash, on every
\* fetch, to a download that starts without the file
NeverMatching ==
    /\ fcall.op = "download"
    /\ fcall.expected # RetNone
    /\ Kind(fsBefore, FilePath) = "absent"
    /\ \A i \in DOMAIN fcall.arg : fcall.arg[i] = "b"

C37_ReturnedFileVerified ==
    (fcall.op = "download" /\ fcall.expected # RetNone /\ fret = RetText(FileName))
        => VerifyChecksum(FilePath, fcall.expected, Word.sha256, fs, bb)
\* the self-test of the binary has been dispatched
ProbeDispatched == \E i \in DOMAIN sent : sent[i] = Cmd.busybox \o Cmd.help

\* C38: when setup_busybox returns true, the binary at busybox_path has the
\* expected sha512 digest and the availability probe has run it
C38_SuccessMeansVerifiedAndProbed ==
    (fcall.op = "setup_busybox" /\ fret = RetBool(TRUE))
        => /\ PyChecksum(Cmd.busybox, Word.sha512, fs, bb).ret = ExpectedBusybox
           /\ ProbeDispatched

====
